---- MODULE Spec2Model ----
(***************************************************************************)
(* Nurse scheduling: the weekly block grid, the coverage compiler and task *)
(* expander of app/code/processing/preprocess.py, the CP-SAT and Gurobi    *)
(* models of app/code/solvers, the solution tables they emit and the       *)
(* checks of app/code/processing/validator.py.                             *)
(*                                                                         *)
(* A time string "HH:MM" is the pair <<hh, mm>>; parsing it is reading the *)
(* two components, formatting a block is block_to_timestr.  A coverage     *)
(* array is a function 0..671 -> {0, 1}.  A Python list is a sequence; the *)
(* dict shift_start_blocks is a function whose DOMAIN is its key set.      *)
(***************************************************************************)
EXTENDS Integers, Sequences, FiniteSets, TLC

VARIABLES
    pc,                 \* position of the pipeline / of the bitmap harness
    cover_array,        \* the bitmap handed to add/remove_coverage_blocks
    cover_before,       \* its value before the last call
    start_min,          \* first argument of the last call
    end_min,            \* second argument of the last call
    calls,              \* number of bitmap calls made so far
    shifts_df,          \* the shifts table: a sequence of rows
    tasks_df,           \* the tasks table: a sequence of rows
    min_nurses_anytime, \* the ward-wide floor handed to the solver
    shift_info,         \* NurseSchedulingPreprocessor.shift_info
    shift_start_blocks, \* ... .shift_start_blocks: block -> list of row idx
    tasks_info,         \* ... .tasks_info
    task_map,           \* ... .task_map: list of <<row idx, day index>>
    backend,            \* "cp" or "gurobi": the solver the caller picked
    adjusted_ranges,    \* OptimalNurseSchedulerCP.adjusted_ranges
    candidate_blocks,   \* GurobiNurseSolver.candidate_blocks
    feasible,           \* the built model: its satisfying assignments
    status,             \* the status the backend returned
    usage,              \* values read from the usage variables
    task_start,         \* start block read for each task instance
    total_cost_scaled,  \* objective value in hundredths
    shifts_solution_df, \* the shifts table with the 'usage' column
    tasks_solution_df,  \* the task records
    solutions,          \* the callback's list of <<objective, elapsed>>
    result,             \* the tuple solve() returned to its caller
    shifts_coverage,    \* Validator.shifts_coverage
    tasks_coverage,     \* Validator.tasks_coverage
    all_valid           \* "True" or "False" once validate_schedule returned

coverVars == <<cover_array, cover_before, start_min, end_min, calls>>
inputVars == <<shifts_df, tasks_df, min_nurses_anytime>>
valVars == <<shifts_coverage, tasks_coverage, all_valid>>
preVars == <<shift_info, shift_start_blocks, tasks_info, task_map>>
modelVars == <<backend, adjusted_ranges, candidate_blocks, feasible>>
solVars == <<status, usage, task_start, total_cost_scaled,
             shifts_solution_df, tasks_solution_df, solutions, result>>

vars == <<pc, coverVars, inputVars, valVars, preVars, modelVars, solVars>>

----------------------------------------------------------------------------
(* Global constants: preprocess.py lines 15-17 *)

WEEK_MINUTES == 7 * 24 * 60
TIME_GRAN == 15
N_BLOCKS == WEEK_MINUTES \div TIME_GRAN

Blocks == 0 .. (N_BLOCKS - 1)

Max(a, b) == IF a >= b THEN a ELSE b
Min(a, b) == IF a <= b THEN a ELSE b

\* Python's range(a, b)
range(a, b) == a .. (b - 1)

minute_to_block(m) == m \div TIME_GRAN

block_to_minute(b) == b * TIME_GRAN

\* 'HH:MM' of the block, modulo 24 hours
block_to_timestr(b) ==
    LET blocks_per_day == 1440 \div TIME_GRAN
        minute_of_day == block_to_minute(b % blocks_per_day)
        hh == minute_of_day \div 60
        mm == minute_of_day % 60
    IN  <<hh, mm>>

\* the loop "for b in R: cover_array[b] = v"
AssignBlocks(cover, R, v) ==
    [b \in Blocks |-> IF b \in R THEN v ELSE cover[b]]

\* the block ranges the two mutators walk over (their bodies are identical
\* up to the value written)
CoverageRange(s_min, e_min) ==
    IF e_min < WEEK_MINUTES
    THEN LET s_block == minute_to_block(s_min)
             e_block == Max(s_block, minute_to_block(e_min))
         IN  range(s_block, Min(e_block + 1, N_BLOCKS))
    ELSE LET s_block == minute_to_block(s_min)
             end2 == e_min - WEEK_MINUTES
             e_block2 == minute_to_block(end2)
         IN  range(s_block, N_BLOCKS) \cup range(0, Min(e_block2 + 1, N_BLOCKS))

add_coverage_blocks(cover, s_min, e_min) ==
    AssignBlocks(cover, CoverageRange(s_min, e_min), 1)

remove_coverage_blocks(cover, s_min, e_min) ==
    AssignBlocks(cover, CoverageRange(s_min, e_min), 0)

----------------------------------------------------------------------------
(* The bitmap mutators on their own: SpecCover applies them to block-      *)
(* aligned minute intervals, MaxCalls calls in a row.                      *)

MaxCalls == 1

\* blocks around the day and week boundaries, and 8 hours apart
SampleBlocks == {0, 1, 32, 64, 96, 576, 640, 671, 672, 700}

SampleMinutes == {block_to_minute(b) : b \in SampleBlocks}

ZeroCover == [b \in Blocks |-> 0]
FullCover == [b \in Blocks |-> 1]
OddCover == [b \in Blocks |-> b % 2]

InitCover ==
    /\ pc = "bitmap"
    /\ cover_array \in {ZeroCover, FullCover, OddCover}
    /\ cover_before = cover_array
    /\ start_min = 0
    /\ end_min = 0
    /\ calls = 0
    /\ shifts_df = << >> /\ tasks_df = << >> /\ min_nurses_anytime = 0
    /\ shift_info = << >> /\ shift_start_blocks = << >>
    /\ tasks_info = << >> /\ task_map = << >>
    /\ backend = "none" /\ adjusted_ranges = << >> /\ candidate_blocks = << >>
    /\ feasible = {} /\ status = "none" /\ usage = << >> /\ task_start = << >>
    /\ total_cost_scaled = 0
    /\ shifts_solution_df = << >> /\ tasks_solution_df = << >>
    /\ solutions = << >> /\ result = << >>
    /\ shifts_coverage = ZeroCover /\ tasks_coverage = ZeroCover
    /\ all_valid = "none"

AddCoverage ==
    /\ pc \in {"bitmap", "added", "removed"}
    /\ calls < MaxCalls
    /\ \E s \in SampleMinutes, e \in SampleMinutes :
          /\ s <= e
          /\ s < WEEK_MINUTES
          /\ cover_array' = add_coverage_blocks(cover_array, s, e)
          /\ start_min' = s
          /\ end_min' = e
    /\ cover_before' = cover_array
    /\ calls' = calls + 1
    /\ pc' = "added"
    /\ UNCHANGED <<inputVars, valVars, preVars, modelVars, solVars>>

RemoveCoverage ==
    /\ pc \in {"bitmap", "added", "removed"}
    /\ calls < MaxCalls
    /\ \E s \in SampleMinutes, e \in SampleMinutes :
          /\ s <= e
          /\ s < WEEK_MINUTES
          /\ cover_array' = remove_coverage_blocks(cover_array, s, e)
          /\ start_min' = s
          /\ end_min' = e
    /\ cover_before' = cover_array
    /\ calls' = calls + 1
    /\ pc' = "removed"
    /\ UNCHANGED <<inputVars, valVars, preVars, modelVars, solVars>>

NextCover == AddCoverage \/ RemoveCoverage

SpecCover == InitCover /\ [][NextCover]_vars

----------------------------------------------------------------------------
(* NurseSchedulingPreprocessor *)

\* map(int, s.split(':')) followed by h * 60 + m
MinuteOfDay(time_str) == time_str[1] * 60 + time_str[2]

\* Python's round() of the quotient n / d (n >= 0, d > 0): half to even
PyRound(n, d) ==
    LET q == n \div d
        r == n % d
    IN  IF 2 * r < d THEN q
        ELSE IF 2 * r > d THEN q + 1
        ELSE IF q % 2 = 0 THEN q ELSE q + 1

\* <<start_min, end_min>> in week minutes; the end moves to the next day when
\* it precedes the start
_compute_start_end_minutes(day_index, start_str, end_str) ==
    LET day_offset == day_index * 1440
        s_min == day_offset + MinuteOfDay(start_str)
        e_min0 == day_offset + MinuteOfDay(end_str)
        e_min == IF e_min0 < s_min THEN e_min0 + 24 * 60 ELSE e_min0
    IN  <<s_min, e_min>>

\* BreakStartMin without the move to the next day
BreakStartMin_SameDay(row, day_index) ==
    day_index * 1440 + MinuteOfDay(row.brk)

\* break_start of the row on the day, as _process_shifts resolves it
BreakStartMin(row, day_index) ==
    LET s_min == _compute_start_end_minutes(day_index, row.start, row.end)[1]
        break_start == day_index * 1440 + MinuteOfDay(row.brk)
    IN  IF break_start < s_min THEN break_start + 24 * 60 ELSE break_start

\* one pass of the day loop of _process_shifts on coverage_arr
ApplyDay(coverage_arr, row, day_index) ==
    LET se == _compute_start_end_minutes(day_index, row.start, row.end)
        break_start == BreakStartMin(row, day_index)
        break_end == break_start + row.break_duration
    IN  remove_coverage_blocks(
            add_coverage_blocks(coverage_arr, se[1], se[2]),
            break_start, break_end)

\* the day loop from day_index on (day_flags is row.days, Monday first)
RECURSIVE CompileDays(_, _, _)
CompileDays(coverage_arr, row, day_index) ==
    IF day_index > 6 THEN coverage_arr
    ELSE IF row.days[day_index + 1] = 0
         THEN CompileDays(coverage_arr, row, day_index + 1)
         ELSE CompileDays(ApplyDay(coverage_arr, row, day_index), row, day_index + 1)

\* sum(arr[lo .. hi]), split in halves to keep the recursion shallow
RECURSIVE SumRange(_, _, _)
SumRange(arr, lo, hi) ==
    IF lo > hi THEN 0
    ELSE IF lo = hi THEN arr[lo]
    ELSE LET mid == (lo + hi) \div 2
         IN  SumRange(arr, lo, mid) + SumRange(arr, mid + 1, hi)

\* sum(coverage_arr)
SumArray(arr) == SumRange(arr, 0, N_BLOCKS - 1)

\* the dict built for one shift row (weight is given in thousandths)
ShiftInfoOf(row) ==
    LET coverage_arr == CompileDays([b \in Blocks |-> 0], row, 0)
    IN  [name |-> row.name,
         coverage |-> coverage_arr,
         weight_scaled |-> PyRound(row.weight * 100, 1000),
         length_blocks |-> SumArray(coverage_arr),
         max_nurses |-> row.max_nurses]

\* defaultdict(list): d[key].append(v)
DictAppend(d, key, v) ==
    IF key \in DOMAIN d
    THEN [d EXCEPT ![key] = Append(@, v)]
    ELSE [k \in DOMAIN d \cup {key} |-> IF k = key THEN <<v>> ELSE d[k]]

\* the appends to shift_start_blocks made for rows n.. and, in row n, for
\* days day_index.. (idx is the 0-based row label n - 1)
RECURSIVE RecordStarts(_, _, _, _)
RecordStarts(d, df, n, day_index) ==
    IF n > Len(df) THEN d
    ELSE IF day_index > 6 THEN RecordStarts(d, df, n + 1, 0)
    ELSE IF df[n].days[day_index + 1] = 0
         THEN RecordStarts(d, df, n, day_index + 1)
         ELSE LET s_min == _compute_start_end_minutes(
                               day_index, df[n].start, df[n].end)[1]
                  s_block == minute_to_block(s_min)
              IN  RecordStarts(DictAppend(d, s_block, n - 1), df, n, day_index + 1)

EmptyDict == [k \in {} |-> << >>]

\* the entry computed without the day's offset, as if every day were Monday
TaskInfoOf_NoDayOffset(row, day_index) ==
    LET se == _compute_start_end_minutes(0, row.start, row.end)
    IN  [task_name |-> row.task,
         earliest_block |-> se[1] \div TIME_GRAN,
         latest_block |-> (se[2] \div TIME_GRAN) % N_BLOCKS,
         duration_blocks |-> row.duration_min \div TIME_GRAN,
         required_nurses |-> row.nurses_required]

\* the tasks_info entry of a task row on an active day
TaskInfoOf(row, day_index) ==
    LET se == _compute_start_end_minutes(day_index, row.start, row.end)
        earliest_block == se[1] \div TIME_GRAN
        latest_block == (se[2] \div TIME_GRAN) % N_BLOCKS
    IN  [task_name |-> row.task,
         earliest_block |-> earliest_block,
         latest_block |-> latest_block,
         duration_blocks |-> row.duration_min \div TIME_GRAN,
         required_nurses |-> row.nurses_required]

\* the <<tasks_info entry, task_map entry>> pairs _process_tasks appends,
\* in order, for rows n.. and days day_index..
RECURSIVE ExpandTasks(_, _, _)
ExpandTasks(df, n, day_index) ==
    IF n > Len(df) THEN << >>
    ELSE IF day_index > 6 THEN ExpandTasks(df, n + 1, 0)
    ELSE IF df[n].days[day_index + 1] = 0
         THEN ExpandTasks(df, n, day_index + 1)
         ELSE << <<TaskInfoOf(df[n], day_index), <<n - 1, day_index>> >> >>
              \o ExpandTasks(df, n, day_index + 1)

\* process_data(): _process_shifts() then _process_tasks().  The start-block
\* dict is rebuilt; shift_info, tasks_info and task_map are appended to.
ProcessData ==
    /\ pc = "start"
    /\ shift_start_blocks' = RecordStarts(EmptyDict, shifts_df, 1, 0)
    /\ shift_info' = shift_info \o
                        [n \in 1 .. Len(shifts_df) |-> ShiftInfoOf(shifts_df[n])]
    /\ LET new == ExpandTasks(tasks_df, 1, 0)
       IN  /\ tasks_info' = tasks_info \o [n \in 1 .. Len(new) |-> new[n][1]]
           /\ task_map' = task_map \o [n \in 1 .. Len(new) |-> new[n][2]]
    /\ pc' = "preprocessed"
    /\ UNCHANGED <<coverVars, inputVars, valVars, modelVars, solVars>>

----------------------------------------------------------------------------
(* The coverage compiler on its own: SpecShifts compiles one shift row     *)
(* drawn from the times, breaks and day sets below.                        *)

MaxBreakBlocks == 2

Days(S) == [d \in 1 .. 7 |-> IF (d - 1) \in S THEN 1 ELSE 0]

ShiftTimes == {<<0, 0>>, <<7, 0>>, <<8, 0>>, <<16, 0>>, <<23, 0>>}
BreakTimes == {<<2, 0>>, <<7, 0>>, <<12, 0>>, <<23, 45>>}
DaySets == {{0}, {6}, {0, 1}, {5, 6}, 0 .. 6}

ShiftRows ==
    [name : {"D"}, start : ShiftTimes, end : ShiftTimes, brk : BreakTimes,
     break_duration : {k * TIME_GRAN : k \in 0 .. MaxBreakBlocks},
     max_nurses : {1}, weight : {1000},
     days : {Days(S) : S \in DaySets}]

InitShifts ==
    /\ pc = "start"
    /\ cover_array = ZeroCover /\ cover_before = ZeroCover
    /\ start_min = 0 /\ end_min = 0 /\ calls = 0
    /\ \E row \in ShiftRows : shifts_df = <<row>>
    /\ tasks_df = << >> /\ min_nurses_anytime = 0
    /\ shift_info = << >> /\ shift_start_blocks = EmptyDict
    /\ tasks_info = << >> /\ task_map = << >>
    /\ backend = "none" /\ adjusted_ranges = << >> /\ candidate_blocks = << >>
    /\ feasible = {} /\ status = "none" /\ usage = << >> /\ task_start = << >>
    /\ total_cost_scaled = 0
    /\ shifts_solution_df = << >> /\ tasks_solution_df = << >>
    /\ solutions = << >> /\ result = << >>
    /\ shifts_coverage = ZeroCover /\ tasks_coverage = ZeroCover
    /\ all_valid = "none"

NextShifts == ProcessData

SpecShifts == InitShifts /\ [][NextShifts]_vars

----------------------------------------------------------------------------
(* OptimalNurseSchedulerCP._build_model                                    *)
(*                                                                         *)
(* The CP-SAT model is kept as the set of its satisfying values of the     *)
(* decision variables (usage of every shift, start of every task); the     *)
(* values its other variables can take at a block b in such an assignment  *)
(* (h[b], the covers booleans keyed b) are BlockValuesCP.  The constraints *)
(* of different blocks share the decision variables only.                  *)

RECURSIVE SeqSum(_)
SeqSum(q) == IF q = << >> THEN 0 ELSE Head(q) + SeqSum(Tail(q))

\* the stored window taken as it is, a latest block before the earliest
\* one not moved into the next week
AdjustedRange_NoWrap(t) == <<t.earliest_block, t.latest_block>>

\* step 0: the latest block moves a week on when it is below the earliest
AdjustedRange(t) ==
    LET e_b == t.earliest_block
        l_b == t.latest_block
    IN  <<e_b, IF l_b < e_b THEN l_b + N_BLOCKS ELSE l_b>>

\* a usage variable let one past the cap
UsageDomain_PastCap(s) == 0 .. (shift_info[s].max_nurses + 1)

\* NewIntVar(0, max_nurses): the domain of shift s_idx's usage (1-based)
UsageDomain(s) == 0 .. shift_info[s].max_nurses

\* a start variable let one block past the latest start
StartDomain_PastLatest(i) ==
    AdjustedRange(tasks_info[i])[1] .. (AdjustedRange(tasks_info[i])[2] + 1)

\* NewIntVar(e_b, l_b): the domain of task i's start
StartDomain(i) ==
    AdjustedRange(tasks_info[i])[1] .. AdjustedRange(tasks_info[i])[2]

\* the unreduced blocks range(e_b, l_b + d_b) task i gets a boolean for
ExtRange(i) ==
    range(AdjustedRange(tasks_info[i])[1],
          AdjustedRange(tasks_info[i])[2] + tasks_info[i].duration_blocks)

\* the keys of covers_b, the dict of task i
CoverKeys(i) == {ext_b % N_BLOCKS : ext_b \in ExtRange(i)}

\* the reification without its last constraint: a boolean that is 0 says
\* nothing about the start
ReifyOK_OnlyIf(i, startv, ext_b, boolvar) ==
    LET d_b == tasks_info[i].duration_blocks
    IN  boolvar = 1 => (startv <= ext_b /\ ext_b < startv + d_b)

\* step 3: the six constraints that tie boolvar to startv at ext_b admit
\* values of aux1 and aux2
ReifyOK(i, startv, ext_b, boolvar) ==
    LET d_b == tasks_info[i].duration_blocks
    IN  \E aux1 \in BOOLEAN, aux2 \in BOOLEAN :
           /\ aux1 => startv <= ext_b
           /\ ~aux1 => startv > ext_b
           /\ aux2 => ext_b < startv + d_b
           /\ ~aux2 => ext_b >= startv + d_b
           /\ boolvar = 1 => (aux1 /\ aux2)
           /\ boolvar = 0 => (~aux1 \/ ~aux2)

\* the values covers_b[b] of task i can take when its start is startv
CoversValues(i, startv, b) ==
    {v \in {0, 1} :
        \A ext_b \in ExtRange(i) :
            ext_b % N_BLOCKS = b => ReifyOK(i, startv, ext_b, v)}

\* step 4: starts_at[b], with the multiplicity of the start list
\* no shift taken to start anywhere
starts_at_None(U, b) == 0

\* starts_at[b]: Sum of the usage of the shifts that start at block b
starts_at(U, b) ==
    IF b \in DOMAIN shift_start_blocks
    THEN SeqSum([n \in 1 .. Len(shift_start_blocks[b]) |->
                    U[shift_start_blocks[b][n] + 1]])
    ELSE 0

max_possible_usage_per_block(b) ==
    IF b \in DOMAIN shift_start_blocks
    THEN SeqSum([n \in 1 .. Len(shift_start_blocks[b]) |->
                    shift_info[shift_start_blocks[b][n] + 1].max_nurses])
    ELSE 0

\* h[b] left free to be 0 whatever starts at b
HandoverOK_Lower(U, b, hb) ==
    LET M == max_possible_usage_per_block(b)
    IN  IF M > 0 THEN starts_at(U, b) >= hb ELSE hb = 0

\* (C3a) the constraints on hb = h[b]
HandoverOK(U, b, hb) ==
    LET M == max_possible_usage_per_block(b)
    IN  IF M > 0
        THEN /\ starts_at(U, b) <= M * hb
             /\ starts_at(U, b) >= hb
        ELSE hb = 0

\* Sum(coverage_terms) at block b
CoverageSum(U, b) ==
    SeqSum([s \in 1 .. Len(shift_info) |->
               IF shift_info[s].coverage[b] > 0 THEN U[s] ELSE 0])

\* the key sets of task_covers_bool, the list of the dicts covers_b
TaskCoversKeys == [i \in 1 .. Len(tasks_info) |-> CoverKeys(i)]

\* the tasks that have a boolean keyed b, ck being the key sets
TasksAt(ck, b) == {i \in 1 .. Len(ck) : b \in ck[i]}

\* Sum(task_demands) at block b, cov giving the value of each boolean
DemandExpr(b, cov) ==
    SeqSum([i \in 1 .. Len(tasks_info) |->
               IF i \in DOMAIN cov
               THEN tasks_info[i].required_nurses * cov[i] ELSE 0])

\* the demand constraint with h[b] left out of the coverage
DemandOK_NoProvider(U, b, hb, cov) ==
    CoverageSum(U, b) - starts_at(U, b) >= DemandExpr(b, cov)

\* the coverage with nothing taken off for arrivals and the handover
effective_coverage_Raw(U, b, hb) == CoverageSum(U, b)

\* the coverage with the arrivals taken off and h[b] left in
effective_coverage_KeepFlag(U, b, hb) == CoverageSum(U, b) - starts_at(U, b)

effective_coverage(U, b, hb) == CoverageSum(U, b) - starts_at(U, b) - hb

\* (C3) coverage >= sum of task demands
DemandOK(U, b, hb, cov) == effective_coverage(U, b, hb) >= DemandExpr(b, cov)

\* (C4) the global minimum, if set
FloorOK(U, b) ==
    min_nurses_anytime > 0 => CoverageSum(U, b) >= min_nurses_anytime

\* the values (h[b], covers booleans keyed b) compatible with usage U and
\* starts S under every constraint that mentions block b
BlockValuesCP(ck, U, S, b) ==
    {v \in [h : {0, 1}, covers : [TasksAt(ck, b) -> {0, 1}]] :
        /\ HandoverOK(U, b, v.h)
        /\ \A i \in DOMAIN v.covers :
              v.covers[i] \in CoversValues(i, S[i], b)
        /\ DemandOK(U, b, v.h, v.covers)
        /\ FloorOK(U, b)}

\* the value vectors of the first n usage variables
RECURSIVE UsageVectorsUpTo(_)
UsageVectorsUpTo(n) ==
    IF n = 0 THEN {<< >>}
    ELSE {Append(U, x) : U \in UsageVectorsUpTo(n - 1), x \in UsageDomain(n)}

UsageVectors == UsageVectorsUpTo(Len(shift_info))

\* the value vectors of the first n start variables
RECURSIVE StartVectorsUpTo(_)
StartVectorsUpTo(n) ==
    IF n = 0 THEN {<< >>}
    ELSE {Append(S, x) : S \in StartVectorsUpTo(n - 1), x \in StartDomain(n)}

StartVectors == StartVectorsUpTo(Len(tasks_info))

\* the satisfying <<U, S>>: every block admits values of its variables.
\* A block no task has a boolean for constrains U alone, so those blocks
\* are settled first.
SolutionsCP(ck) ==
    LET key == UNION {ck[i] : i \in 1 .. Len(ck)}
        okU == {U \in UsageVectors :
                   \A b \in Blocks \ key :
                       BlockValuesCP(ck, U, << >>, b) # {}}
    IN  {a \in okU \X StartVectors :
            \A b \in key : BlockValuesCP(ck, a[1], a[2], b) # {}}

\* the objective with every weight left out
Cost_Unweighted(U) ==
    SeqSum([s \in 1 .. Len(shift_info) |->
               U[s] * shift_info[s].length_blocks])

\* (C5) the objective
Cost(U) ==
    SeqSum([s \in 1 .. Len(shift_info) |->
               U[s] * shift_info[s].length_blocks * shift_info[s].weight_scaled])

\* call_cp_solver after process_data: OptimalNurseSchedulerCP(...), whose
\* constructor builds the model
BuildCP ==
    /\ pc = "preprocessed"
    /\ backend = "cp"
    /\ adjusted_ranges' =
          [i \in 1 .. Len(tasks_info) |-> AdjustedRange(tasks_info[i])]
    /\ \E ck \in {TaskCoversKeys} : feasible' = SolutionsCP(ck)
    /\ pc' = "built"
    /\ UNCHANGED <<coverVars, inputVars, valVars, preVars, backend, candidate_blocks,
                   solVars>>

\* the task records solve() assembles from the start blocks S
TaskRecords(S) ==
    [i \in 1 .. Len(tasks_info) |->
        [original_task_idx |-> task_map[i][1],
         day_index |-> task_map[i][2],
         task_name |-> tasks_info[i].task_name,
         start_window |-> block_to_timestr(tasks_info[i].earliest_block),
         end_window |-> block_to_timestr(tasks_info[i].latest_block),
         solution_start |-> block_to_timestr(S[i]),
         duration |-> block_to_minute(tasks_info[i].duration_blocks),
         required_nurses |-> tasks_info[i].required_nurses]]

\* shifts_df_original.copy() with the column "usage"
WithUsage(df, U) ==
    [n \in 1 .. Len(df) |->
        [name |-> df[n].name, start |-> df[n].start, end |-> df[n].end,
         brk |-> df[n].brk, break_duration |-> df[n].break_duration,
         max_nurses |-> df[n].max_nurses, weight |-> df[n].weight,
         days |-> df[n].days, usage |-> U[n]]]

\* the objective value of an optimal assignment of F
MinCost(F) ==
    LET costs == {Cost(U) : U \in {a[1] : a \in F}}
    IN  CHOOSE c \in costs : \A d \in costs : c <= d

\* A Python float that stands for the quotient num / den: ulps is how many
\* doubles it lies away from the double nearest to that quotient.
Float(num, den, ulps) == [num |-> num, den |-> den, ulps |-> ulps]

\* a <= b on two such floats
FloatLE(a, b) ==
    \/ a.num * b.den < b.num * a.den
    \/ a.num * b.den = b.num * a.den /\ a.ulps <= b.ulps

\* solver.ObjectiveValue(): the integer objective as a float
ObjectiveValue(U) == Float(Cost(U), 1, 0)

\* total_cost = total_cost_scaled / 100.0: one correctly rounded division
total_cost(scaled) == Float(scaled, 100, 0)

\* solve() returning tables: the backend stopped with status st holding the
\* assignment a, the callback having collected sols
ReadSolution(st, a, sols) ==
    /\ status' = st
    /\ usage' = a[1]
    /\ task_start' = a[2]
    /\ total_cost_scaled' = Cost(a[1])
    /\ shifts_solution_df' = WithUsage(shifts_df, a[1])
    /\ tasks_solution_df' = TaskRecords(a[2])
    /\ solutions' = sols
    /\ result' = <<total_cost(Cost(a[1])), "shifts_solution_df",
                   "tasks_solution_df", sols>>
    /\ pc' = "solved"

\* solve() returning (None, None, None, [])
NoSolution(st, sols) ==
    /\ status' = st
    /\ solutions' = sols
    /\ result' = <<"None", "None", "None", << >> >>
    /\ pc' = "no_solution"
    /\ UNCHANGED <<usage, task_start, total_cost_scaled,
                   shifts_solution_df, tasks_solution_df>>

\* OptimalNurseSchedulerCP.solve() as one step: proved optimal, stopped at
\* the time limit with an incumbent, proved infeasible, or stopped with
\* nothing.  The callback is taken to have been invoked for the returned
\* solution only; CallbackSpec follows the call record by record.
SolveCP ==
    /\ pc = "built"
    /\ backend = "cp"
    /\ \/ /\ feasible # {}
          /\ LET best == MinCost(feasible)
             IN  \E a \in feasible :
                    /\ Cost(a[1]) = best
                    /\ ReadSolution("OPTIMAL", a,
                                    << <<ObjectiveValue(a[1]), 0>> >>)
       \/ \E a \in feasible :
             ReadSolution("FEASIBLE", a, << <<ObjectiveValue(a[1]), 0>> >>)
       \/ feasible = {} /\ NoSolution("INFEASIBLE", << >>)
       \/ NoSolution("UNKNOWN", << >>)
    /\ UNCHANGED <<coverVars, inputVars, valVars, preVars, modelVars>>

----------------------------------------------------------------------------
(* GurobiNurseSolver._build_model                                          *)
(*                                                                         *)
(* Blocks are numbered from 1 (self.T); shifts and tasks too (self.S,      *)
(* self.N).  The model is kept as the set of satisfying <<K, F>>: K[j] the *)
(* value of k[j] and F[i] the candidate b with f[i, b] = 1 (constraint 1   *)
(* makes f one-hot).  r[t] and n[t] are fixed by K (constraints 3 and 7);  *)
(* u[., t], p[t] and x[t] are the remaining variables of block t.          *)

T == 1 .. N_BLOCKS

max_T == N_BLOCKS

\* e[j, t]
e(j, t) == shift_info[j].coverage[t - 1]

\* self.starting_blocks[t - 1], a defaultdict(list)
StartList(b) ==
    IF b \in DOMAIN shift_start_blocks THEN shift_start_blocks[b] ELSE << >>

\* h[j, t]
h(j, t) ==
    IF \E n \in 1 .. Len(StartList(t - 1)) : StartList(t - 1)[n] = j - 1
    THEN 1 ELSE 0

\* the blocks candidate start j covers; the loops over eb.. fold a block
\* past the week's last one back by max_T, the loop over 0..lb does not
CandidateList(d, j, fold) ==
    [k \in 1 .. d |->
        IF fold /\ (k - 1) + j > max_T - 1
        THEN j + (k - 1) - max_T
        ELSE j + (k - 1)]

\* candidate_blocks[i - 1] of a task
CandidateBlocksOf(task) ==
    LET eb == task.earliest_block
        lb == task.latest_block
        d  == task.duration_blocks
    IN  IF lb >= eb
        THEN [c \in 1 .. (lb - eb + 1) |-> CandidateList(d, eb + c - 1, TRUE)]
        ELSE [c \in 1 .. (max_T - eb) |-> CandidateList(d, eb + c - 1, TRUE)]
             \o [c \in 1 .. (lb + 1) |-> CandidateList(d, c - 1, FALSE)]

CandidateBlocks ==
    [i \in 1 .. Len(tasks_info) |-> CandidateBlocksOf(tasks_info[i])]

\* g[i, b, t] over the candidate lists cb
g(cb, i, b, t) ==
    IF \E k \in 1 .. Len(cb[i][b]) : cb[i][b][k] = t - 1 THEN 1 ELSE 0

max_starting_nurses(t) ==
    SeqSum([j \in 1 .. Len(shift_info) |-> h(j, t) * shift_info[j].max_nurses])

Big_M ==
    CHOOSE m \in {max_starting_nurses(t) : t \in T} :
        \A t \in T : max_starting_nurses(t) <= m

\* (3) r[t]
r(K, t) == SeqSum([j \in 1 .. Len(shift_info) |-> K[j] * h(j, t)])

\* (7) n[t]
n(K, t) == SeqSum([j \in 1 .. Len(shift_info) |-> e(j, t) * K[j]])

\* (2) u[i, t] >= sum_b f[i, b] * g[i, b, t]
ActiveOK(cb, F, t, u) ==
    \A i \in 1 .. Len(tasks_info) : u[i] >= g(cb, i, F[i], t)

\* (4) p[t] >= r[t] / Big_M, for Big_M = M > 0
ProvideOK(M, K, t, p) == p * M >= r(K, t)

\* (5) x[t] >= task demand + r[t] + p[t]
RequiredOK(K, t, u, p, x) ==
    x >= SeqSum([i \in 1 .. Len(tasks_info) |->
                    u[i] * tasks_info[i].required_nurses]) + r(K, t) + p

\* (6) the pseudo-task
PseudoTaskOK(x) == x >= min_nurses_anytime

\* (8) n[t] >= x[t]
PresentOK(K, t, x) == n(K, t) >= x

\* u[i, t] of every task; x[t] is an integer from 0 that (8) keeps <= n[t]
UValues == [1 .. Len(tasks_info) -> {0, 1}]

XValues(K, t) == 0 .. n(K, t)

\* the constraints that mention block t admit the value p of p[t] together
\* with some values of u[., t] and x[t]
BlockOKMIP(cb, M, K, F, t, p) ==
    /\ ProvideOK(M, K, t, p)
    /\ \E u \in UValues :
          /\ ActiveOK(cb, F, t, u)
          /\ \E x \in XValues(K, t) :
                /\ RequiredOK(K, t, u, p, x)
                /\ PseudoTaskOK(x)
                /\ PresentOK(K, t, x)

\* <<K, F>> extends to values of the variables of block t
ExtendsMIP(cb, M, K, F, t) ==
    \E p \in {0, 1} : BlockOKMIP(cb, M, K, F, t, p)

\* the values p[t] takes in the assignments that extend <<K, F>>
ProvideValuesMIP(cb, M, K, F, t) ==
    {p \in {0, 1} : BlockOKMIP(cb, M, K, F, t, p)}

\* the value vectors of the first m one-hot rows of f
RECURSIVE ChoiceVectorsUpTo(_, _)
ChoiceVectorsUpTo(cb, m) ==
    IF m = 0 THEN {<< >>}
    ELSE {Append(F, b) : F \in ChoiceVectorsUpTo(cb, m - 1),
                         b \in 1 .. Len(cb[m])}

\* the blocks t some candidate of some task covers
KeyBlocksMIP(cb) ==
    {t \in T : \E i \in 1 .. Len(cb) : \E b \in 1 .. Len(cb[i]) :
                  g(cb, i, b, t) = 1}

\* the satisfying <<K, F>>.  At a block no candidate covers, (2) is the
\* same for every F, so those blocks are settled on K with the first
\* candidates.
SolutionsMIP(cb, M) ==
    LET key == KeyBlocksMIP(cb)
        F0  == [i \in 1 .. Len(cb) |-> 1]
        okK == {K \in UsageVectors :
                   \A t \in T \ key : ExtendsMIP(cb, M, K, F0, t)}
    IN  {a \in okK \X ChoiceVectorsUpTo(cb, Len(cb)) :
            \A t \in key : ExtendsMIP(cb, M, a[1], a[2], t)}

\* call_gurobi_solver after process_data: GurobiNurseSolver(...), whose
\* constructor builds the model.  print(self.candidate_blocks[4]) raises
\* IndexError with fewer than five task instances, and r[t] / Big_M raises
\* ZeroDivisionError when no shift that starts somewhere may be used.
BuildMIP ==
    /\ pc = "preprocessed"
    /\ backend = "gurobi"
    /\ IF Len(tasks_info) < 5
       THEN /\ pc' = "error"
            /\ UNCHANGED <<candidate_blocks, feasible>>
       ELSE \E cb \in {CandidateBlocks}, M \in {Big_M} :
               /\ candidate_blocks' = cb
               /\ IF M = 0
                  THEN pc' = "error" /\ UNCHANGED feasible
                  ELSE pc' = "built" /\ feasible' = SolutionsMIP(cb, M)
    /\ UNCHANGED <<coverVars, inputVars, valVars, preVars, backend, adjusted_ranges,
                   solVars>>

\* chosen_start_block of every task: earliest_block + (b - 1)
ChosenStarts(F) ==
    [i \in 1 .. Len(tasks_info) |-> tasks_info[i].earliest_block + (F[i] - 1)]

\* The objective coefficient k[j] * (weight_scaled / 100.0) * length_blocks
\* is computed in floats: a weight_scaled that is a multiple of 25 gives a
\* quotient, products and sums that are exact; any other gives a quotient
\* that is rounded, and which neighbouring double the products land on
\* depends on the operands' bits.
FloatErrors(K) ==
    IF \A j \in 1 .. Len(shift_info) :
          K[j] = 0 \/ shift_info[j].weight_scaled % 25 = 0
    THEN {0}
    ELSE {-1, 0, 1}

\* model.ObjVal and MIPSOL_OBJ: the values the objective may take at K
ObjVal(K) == {Float(Cost(K), 100, d) : d \in FloatErrors(K)}

\* solve() returning tables: the backend stopped with status st holding the
\* assignment a, the callback having collected sols
ReadSolutionMIP(st, a, v, sols) ==
    /\ status' = st
    /\ usage' = a[1]
    /\ task_start' = ChosenStarts(a[2])
    /\ total_cost_scaled' = Cost(a[1])
    /\ shifts_solution_df' = WithUsage(shifts_df, a[1])
    /\ tasks_solution_df' = TaskRecords(ChosenStarts(a[2]))
    /\ solutions' = sols
    /\ result' = <<v, "shifts_solution_df", "tasks_solution_df", sols>>
    /\ pc' = "solved"

\* solve() returning (None, None)
NoSolutionMIP(st, sols) ==
    /\ status' = st
    /\ solutions' = sols
    /\ result' = <<"None", "None">>
    /\ pc' = "no_solution"
    /\ UNCHANGED <<usage, task_start, total_cost_scaled,
                   shifts_solution_df, tasks_solution_df>>

\* solve() leaving through the exception k[j].X raises when the time limit
\* was hit before any solution was found
RaiseNoIncumbent(sols) ==
    /\ status' = "TIME_LIMIT"
    /\ solutions' = sols
    /\ pc' = "error"
    /\ UNCHANGED <<usage, task_start, total_cost_scaled,
                   shifts_solution_df, tasks_solution_df, result>>

\* GurobiNurseSolver.solve() as one step: proved optimal, stopped at the
\* time limit with an incumbent, stopped at the time limit with none
\* (k[j].X then raises), or proved infeasible (returns (None, None)).  The
\* callback is taken to have been invoked for the returned solution only;
\* CallbackSpec follows the call record by record.
SolveMIP ==
    /\ pc = "built"
    /\ backend = "gurobi"
    /\ \/ /\ feasible # {}
          /\ LET best == MinCost(feasible)
             IN  \E a \in feasible :
                    /\ Cost(a[1]) = best
                    /\ \E v \in ObjVal(a[1]) :
                          ReadSolutionMIP("OPTIMAL", a, v, << <<v, 0>> >>)
       \/ \E a \in feasible :
             \E v \in ObjVal(a[1]) :
                ReadSolutionMIP("TIME_LIMIT", a, v, << <<v, 0>> >>)
       \/ RaiseNoIncumbent(<< >>)
       \/ feasible = {} /\ NoSolutionMIP("INFEASIBLE", << >>)
    /\ UNCHANGED <<coverVars, inputVars, valVars, preVars, modelVars>>

----------------------------------------------------------------------------
(* The pipeline: a caller picks the tables, the floor and the backend      *)
(* (solver_combined), the preprocessor runs, the model is built and solved *)

MaxNurses == 2
MaxFloor == 1
MaxRequired == 1

AllDays == Days(0 .. 6)

\* a day shift whose break is at noon, when nobody else is on duty, or in
\* the morning overlap with the night shift
DayBreaks == {<< <<12, 0>>, 30 >>, << <<8, 15>>, 15 >>}

DayShift(m, b) ==
    [name |-> "D", start |-> <<8, 0>>, end |-> <<20, 0>>, brk |-> b[1],
     break_duration |-> b[2], max_nurses |-> m, weight |-> 1000,
     days |-> AllDays]

\* a night shift that overlaps the day shift at both ends and has its
\* break in the evening overlap
NightShift(m) ==
    [name |-> "N", start |-> <<19, 0>>, end |-> <<9, 0>>, brk |-> <<19, 30>>,
     break_duration |-> 15, max_nurses |-> m, weight |-> 1500,
     days |-> AllDays]

\* the day shift alone, or the day shift and a night shift at full cap
ShiftTables ==
    {<<DayShift(m, << <<12, 0>>, 30 >>)>> : m \in 0 .. MaxNurses}
    \cup {<<DayShift(m, b), NightShift(MaxNurses)>> :
             m \in 0 .. MaxNurses, b \in DayBreaks}

\* a handover round at the 19:00 shift change on working days, and a round
\* whose window wraps from Sunday night into Monday
TaskRows ==
    {[task |-> "round", start |-> <<19, 0>>, end |-> <<19, 15>>,
      duration_min |-> 30, nurses_required |-> req, days |-> Days(0 .. 4)] :
        req \in {0, MaxRequired}}
    \cup {[task |-> "night", start |-> <<23, 30>>, end |-> <<0, 30>>,
           duration_min |-> 30, nurses_required |-> MaxRequired,
           days |-> Days({6})]}

TaskTables == {<< >>} \cup {<<row>> : row \in TaskRows}

Init ==
    /\ pc = "start"
    /\ cover_array = ZeroCover /\ cover_before = ZeroCover
    /\ start_min = 0 /\ end_min = 0 /\ calls = 0
    /\ shifts_df \in ShiftTables
    /\ tasks_df \in TaskTables
    /\ min_nurses_anytime \in {0, MaxFloor}
    /\ shift_info = << >> /\ shift_start_blocks = EmptyDict
    /\ tasks_info = << >> /\ task_map = << >>
    /\ backend \in {"cp", "gurobi"}
    /\ adjusted_ranges = << >> /\ candidate_blocks = << >>
    /\ feasible = {} /\ status = "none" /\ usage = << >> /\ task_start = << >>
    /\ total_cost_scaled = 0
    /\ shifts_solution_df = << >> /\ tasks_solution_df = << >>
    /\ solutions = << >> /\ result = << >>
    /\ shifts_coverage = ZeroCover /\ tasks_coverage = ZeroCover
    /\ all_valid = "none"

Next == ProcessData \/ BuildCP \/ SolveCP \/ BuildMIP \/ SolveMIP

Spec == Init /\ [][Next]_vars

----------------------------------------------------------------------------
(* The pipeline on the end-to-end scenarios                                *)

ShiftRow(name, start, end, brk, dur, cap, weight, S) ==
    [name |-> name, start |-> start, end |-> end, brk |-> brk,
     break_duration |-> dur, max_nurses |-> cap, weight |-> weight,
     days |-> Days(S)]

TaskRow(task, start, end, dur, req, S) ==
    [task |-> task, start |-> start, end |-> end, duration_min |-> dur,
     nurses_required |-> req, days |-> Days(S)]

\* E1: one shift on Monday, one task on Monday morning
E1_shifts ==
    <<ShiftRow("D", <<8, 0>>, <<16, 0>>, <<12, 0>>, 30, 5, 1000, {0})>>
E1_tasks == <<TaskRow("round", <<9, 0>>, <<11, 0>>, 60, 2, {0})>>

\* E2: one shift from Monday night into Tuesday, one task on Tuesday
E2_shifts ==
    <<ShiftRow("N", <<23, 0>>, <<7, 0>>, <<23, 0>>, 0, 2, 1500, {0})>>
E2_tasks == <<TaskRow("check", <<1, 0>>, <<2, 0>>, 30, 1, {1})>>

\* a ward staffed around the clock: a day and a night shift that overlap
\* at both ends, every day of the week
Ward_shifts ==
    <<ShiftRow("D", <<8, 0>>, <<20, 0>>, <<12, 0>>, 30, 2, 1000, 0 .. 6),
      ShiftRow("N", <<19, 0>>, <<9, 0>>, <<19, 30>>, 15, 2, 1500, 0 .. 6)>>

\* E3: a Sunday task whose window runs into Monday, after four evening
\* rounds at a fixed time
E3_tasks ==
    <<TaskRow("round", <<19, 0>>, <<19, 0>>, 30, 1, 0 .. 3),
      TaskRow("late", <<22, 0>>, <<2, 0>>, 30, 1, {6})>>

\* E6: two day shifts that differ in name and weight only, and the night
\* shift; the dearer one weighs 1.004 or 1.50 against 1.00
TwinShift(name, cap, weight) ==
    ShiftRow(name, <<8, 0>>, <<20, 0>>, <<12, 0>>, 30, cap, weight, 0 .. 6)

E6_shifts ==
    UNION {{<<TwinShift("A", cap, 1000), TwinShift("B", cap, w), Ward_shifts[2]>>,
            <<TwinShift("B", cap, w), TwinShift("A", cap, 1000), Ward_shifts[2]>>} :
              cap \in 1 .. 2, w \in {1004, 1500}}

\* an evening round at a fixed time on working days
E6_tasks ==
    {<<TaskRow("round", <<19, 0>>, <<19, 0>>, 30, req, 0 .. 4)>> :
        req \in 0 .. 1}

\* the ward with a night shift of weight 1.30 and a half-hour break: its
\* weight_scaled / 100.0 is not a binary fraction
Ward130_shifts ==
    <<Ward_shifts[1],
      ShiftRow("N", <<19, 0>>, <<9, 0>>, <<19, 30>>, 30, 2, 1300, 0 .. 6)>>

Scenarios ==
    {<<E1_shifts, E1_tasks, 0>>, <<E2_shifts, E2_tasks, 0>>,
     <<Ward_shifts, E3_tasks, 0>>}
    \cup (E6_shifts \X E6_tasks \X (0 .. 1))
    \cup ({Ward130_shifts} \X E6_tasks \X (0 .. 1))

InitScenarios ==
    /\ pc = "start"
    /\ cover_array = ZeroCover /\ cover_before = ZeroCover
    /\ start_min = 0 /\ end_min = 0 /\ calls = 0
    /\ \E sc \in Scenarios :
          /\ shifts_df = sc[1]
          /\ tasks_df = sc[2]
          /\ min_nurses_anytime = sc[3]
    /\ shift_info = << >> /\ shift_start_blocks = EmptyDict
    /\ tasks_info = << >> /\ task_map = << >>
    /\ backend \in {"cp", "gurobi"}
    /\ adjusted_ranges = << >> /\ candidate_blocks = << >>
    /\ feasible = {} /\ status = "none" /\ usage = << >> /\ task_start = << >>
    /\ total_cost_scaled = 0
    /\ shifts_solution_df = << >> /\ tasks_solution_df = << >>
    /\ solutions = << >> /\ result = << >>
    /\ shifts_coverage = ZeroCover /\ tasks_coverage = ZeroCover
    /\ all_valid = "none"

ScenarioSpec == InitScenarios /\ [][Next]_vars

----------------------------------------------------------------------------
(* Claims about the bitmap mutators *)

WrittenValue == IF pc = "added" THEN 1 ELSE 0

\* C7: for block-aligned 0 <= start_min < end_min <= 10080 a call writes
\* exactly the blocks start_min/15 .. end_min/15 - 1 and leaves every other
\* block as it was (the block that begins at end_min is not written).
C7_HalfOpenLowering ==
    (/\ pc \in {"added", "removed"}
     /\ 0 <= start_min /\ start_min < end_min /\ end_min <= WEEK_MINUTES)
    => \A b \in Blocks :
          cover_array[b] =
             IF start_min \div 15 <= b /\ b <= end_min \div 15 - 1
             THEN WrittenValue
             ELSE cover_before[b]

\* C8: a call with end_min = 10080 touches only blocks in
\* [start_min/15, 671]; every block below start_min/15, block 0 of Monday
\* in particular, keeps its value.
C8_NoWrapAtWeekEnd ==
    (/\ pc \in {"added", "removed"}
     /\ end_min = WEEK_MINUTES
     /\ start_min < end_min)
    => \A b \in Blocks :
          b < start_min \div 15 => cover_array[b] = cover_before[b]

----------------------------------------------------------------------------
(* Claims about the coverage compiler *)

\* the minute interval [lo, hi) contains block b, taken modulo the week
InHalfOpen(b, lo, hi) ==
    \E w \in {0, 1} :
        /\ lo <= block_to_minute(b) + w * WEEK_MINUTES
        /\ block_to_minute(b) + w * WEEK_MINUTES < hi

ActiveDays(row) == {d \in 0 .. 6 : row.days[d + 1] = 1}

\* the shift and break intervals of the data model: the end moves to the
\* next day when end <= start, the break when it precedes the start
SpecStartMin(row, d) == d * 1440 + MinuteOfDay(row.start)
SpecEndMin(row, d) ==
    d * 1440 + MinuteOfDay(row.end)
        + (IF MinuteOfDay(row.end) <= MinuteOfDay(row.start) THEN 1440 ELSE 0)
SpecBreakStart(row, d) ==
    d * 1440 + MinuteOfDay(row.brk)
        + (IF MinuteOfDay(row.brk) < MinuteOfDay(row.start) THEN 1440 ELSE 0)
SpecBreakEnd(row, d) == SpecBreakStart(row, d) + row.break_duration

Compiled == pc = "preprocessed" /\ Len(shift_info) = Len(shifts_df)

\* C5: after _process_shifts, coverage[t][b] = 1 exactly when some active
\* day has b in its shift interval [startMin, endMin) and outside its break
\* interval [breakStart, breakEnd).
C5_CoverageExact ==
    Compiled =>
        \A t \in 1 .. Len(shift_info) : \A b \in Blocks :
            (shift_info[t].coverage[b] = 1)
            <=> \E d \in ActiveDays(shifts_df[t]) :
                   /\ InHalfOpen(b, SpecStartMin(shifts_df[t], d),
                                    SpecEndMin(shifts_df[t], d))
                   /\ ~InHalfOpen(b, SpecBreakStart(shifts_df[t], d),
                                     SpecBreakEnd(shifts_df[t], d))

\* C6, as claimed: every block inside the break interval of t on an active
\* day (break start moved by 24h when it precedes the shift start, lasting
\* break_duration minutes) has coverage 0.
C6_BreakExclusion ==
    Compiled =>
        \A t \in 1 .. Len(shift_info) : \A d \in ActiveDays(shifts_df[t]) :
            \A b \in Blocks :
                InHalfOpen(b, SpecBreakStart(shifts_df[t], d),
                              SpecBreakEnd(shifts_df[t], d))
                => shift_info[t].coverage[b] = 0

\* the break of the row on day d lies inside that day's shift interval
BreakInsideShift(row, d) ==
    LET se == _compute_start_end_minutes(d, row.start, row.end)
    IN  /\ se[1] <= SpecBreakStart(row, d)
        /\ SpecBreakEnd(row, d) <= se[2]

\* C6, amended: every block inside a break interval that lies inside its
\* day's shift interval has coverage 0.
C6_BreakExclusionInsideShift ==
    Compiled =>
        \A t \in 1 .. Len(shift_info) : \A d \in ActiveDays(shifts_df[t]) :
            BreakInsideShift(shifts_df[t], d) =>
                \A b \in Blocks :
                    InHalfOpen(b, SpecBreakStart(shifts_df[t], d),
                                  SpecBreakEnd(shifts_df[t], d))
                    => shift_info[t].coverage[b] = 0

\* a night shift on two consecutive days whose break, of at least one
\* block, falls after midnight and inside the shift has been compiled
C6_Witness ==
    /\ Compiled
    /\ \E t \in 1 .. Len(shift_info) :
          /\ {0, 1} \subseteq ActiveDays(shifts_df[t])
          /\ shifts_df[t].break_duration > 0
          /\ BreakInsideShift(shifts_df[t], 0)
          /\ SpecBreakStart(shifts_df[t], 0) >= 1440
          /\ shift_info[t].length_blocks > 0

CoveredBlocks(t) == {b \in Blocks : shift_info[t].coverage[b] = 1}

\* C9: a template 23:00-07:00 active on Monday only compiles, without a
\* break, to exactly the 32 blocks 92..123 (the last 4 of Monday, the first
\* 28 of Tuesday), and with a break of k blocks inside the shift to 32 - k
\* of them.
C9_MidnightWrapCount ==
    Compiled =>
        \A t \in 1 .. Len(shift_info) :
            (/\ shifts_df[t].start = <<23, 0>>
             /\ shifts_df[t].end = <<7, 0>>
             /\ ActiveDays(shifts_df[t]) = {0})
            => LET k == shifts_df[t].break_duration \div TIME_GRAN
               IN  /\ k = 0 => /\ shift_info[t].length_blocks = 32
                               /\ CoveredBlocks(t) = 92 .. 123
                   /\ (k > 0 /\ BreakInsideShift(shifts_df[t], 0))
                         => /\ shift_info[t].length_blocks = 32 - k
                            /\ CoveredBlocks(t) \subseteq 92 .. 123
                            /\ Cardinality(CoveredBlocks(t)) = 32 - k

----------------------------------------------------------------------------
(* Validator and UnitTest checks on the emitted tables *)

\* the order of two zero-padded 'HH:MM' strings
TimeLE(a, b) == a[1] < b[1] \/ (a[1] = b[1] /\ a[2] <= b[2])

\* Validator.task_in_window
task_in_window(tasks) ==
    \A i \in 1 .. Len(tasks) :
        LET start_window   == tasks[i].start_window
            end_window     == tasks[i].end_window
            start_solution == tasks[i].solution_start
        IN  IF TimeLE(start_window, end_window)
            THEN TimeLE(start_window, start_solution)
                 /\ TimeLE(start_solution, end_window)
            ELSE TimeLE(start_window, start_solution)
                 \/ TimeLE(start_solution, end_window)

\* UnitTest.times_to_quarter_index
times_to_quarter_index(time) == (time[1] * 4) + (time[2] \div 15)

\* UnitTest.same_end_day, the flag of a task row
same_end_day(row) ==
    times_to_quarter_index(row.end_window)
        > times_to_quarter_index(row.start_window)

\* UnitTest.check_solution_times
check_solution_times(tasks) ==
    \A i \in 1 .. Len(tasks) :
        LET start    == times_to_quarter_index(tasks[i].start_window)
            end      == times_to_quarter_index(tasks[i].end_window)
            solution == times_to_quarter_index(tasks[i].solution_start)
        IN  IF same_end_day(tasks[i])
            THEN solution >= start /\ solution <= end
            ELSE solution >= start \/ solution <= end

\* Validator.__init__: self.shifts keeps the rows with usage != 0
UsedShifts(df) == SelectSeq(df, LAMBDA row : row.usage # 0)

\* Validator.check_max_nurses
check_max_nurses(shifts) ==
    \A j \in 1 .. Len(shifts) : ~(shifts[j].usage > shifts[j].max_nurses)

----------------------------------------------------------------------------
(* Claims about the built models.  SolveCP and SolveMIP may stop with any *)
(* satisfying assignment as the incumbent, so the solutions of the solved *)
(* states are all the satisfying assignments of the built models.         *)

SolvedCP == pc = "solved" /\ backend = "cp"

SolvedMIP == pc = "solved" /\ backend = "gurobi"

\* A[i][b]: task i started at S[i] occupies block b
Occupies(S, i, b) ==
    \E k \in 0 .. (tasks_info[i].duration_blocks - 1) :
        (S[i] + k) % N_BLOCKS = b

\* the workers the tasks started at S require at block b
TaskDemand(S, b) ==
    SeqSum([i \in 1 .. Len(tasks_info) |->
               IF Occupies(S, i, b) THEN tasks_info[i].required_nurses ELSE 0])

\* the candidate of f the start block S[i] was read from
ChosenCandidates(S) ==
    [i \in 1 .. Len(tasks_info) |-> S[i] - tasks_info[i].earliest_block + 1]

\* C1: in every satisfying assignment of the CP model, at every block the
\* coverage of the used shifts, less the assignees who start at the block
\* and less h[b], is at least the workers required by the tasks that
\* occupy the block.
C1_CoverageSoundness ==
    SolvedCP =>
        \E ck \in {TaskCoversKeys} :
            \A b \in Blocks :
                \A v \in BlockValuesCP(ck, usage, task_start, b) :
                    CoverageSum(usage, b) - starts_at(usage, b) - v.h
                        >= TaskDemand(task_start, b)

\* a solution in which a task that needs a worker runs at a block where
\* assignees start
C1_Witness ==
    /\ SolvedCP
    /\ \E b \in DOMAIN shift_start_blocks :
          starts_at(usage, b) >= 1 /\ TaskDemand(task_start, b) >= 1

\* C2: with a positive floor, in every satisfying assignment of either
\* model, at every block the coverage net of the assignees who start there
\* and of the handover provider is at least the floor.
C2_NetFloor ==
    (pc = "solved" /\ min_nurses_anytime > 0) =>
        IF backend = "cp"
        THEN \E ck \in {TaskCoversKeys} :
                \A b \in Blocks :
                    \A v \in BlockValuesCP(ck, usage, task_start, b) :
                        effective_coverage(usage, b, v.h) >= min_nurses_anytime
        ELSE LET M == Big_M
                 F == ChosenCandidates(task_start)
             IN  \A t \in T :
                    \A p \in ProvideValuesMIP(candidate_blocks, M, usage, F, t) :
                        n(usage, t) - r(usage, t) - p >= min_nurses_anytime

\* C3: every task's start lies in its window, the latest block moved a
\* week on when it is below the earliest, and both window checks accept
\* the emitted times of day.
C3_WindowRespect ==
    pc = "solved" =>
        /\ \A i \in 1 .. Len(tasks_info) :
              LET earliestBlock == tasks_info[i].earliest_block
                  latestBlock   == tasks_info[i].latest_block
                  latestBlock2  == IF latestBlock < earliestBlock
                                   THEN latestBlock + 672 ELSE latestBlock
              IN  /\ earliestBlock <= task_start[i]
                  /\ task_start[i] <= latestBlock2
                  /\ tasks_solution_df[i].solution_start
                        = block_to_timestr(task_start[i] % 96)
        /\ task_in_window(tasks_solution_df)
        /\ check_solution_times(tasks_solution_df)

\* a solution whose task starts after midnight in a window that wraps
C3_Witness ==
    /\ SolvedCP
    /\ \E i \in 1 .. Len(tasks_info) :
          /\ tasks_info[i].latest_block < tasks_info[i].earliest_block
          /\ task_start[i] >= N_BLOCKS

\* C4: in every solution either solver emits, the usage written for every
\* shift is between 0 and the shift's max_nurses, and check_max_nurses
\* accepts the emitted shift table.
C4_CapRespect ==
    pc = "solved" =>
        /\ \A j \in 1 .. Len(shifts_solution_df) :
              /\ 0 <= shifts_solution_df[j].usage
              /\ shifts_solution_df[j].usage <= shifts_solution_df[j].max_nurses
        /\ check_max_nurses(UsedShifts(shifts_solution_df))

\* a solution of the MIP that uses a shift up to its cap
C4_Witness ==
    /\ SolvedMIP
    /\ \E j \in 1 .. Len(shifts_solution_df) :
          /\ shifts_solution_df[j].usage >= 1
          /\ shifts_solution_df[j].usage = shifts_solution_df[j].max_nurses

\* the same for the CP solver
C4_WitnessCP ==
    /\ SolvedCP
    /\ \E j \in 1 .. Len(shifts_solution_df) :
          /\ shifts_solution_df[j].usage >= 1
          /\ shifts_solution_df[j].usage = shifts_solution_df[j].max_nurses

\* C10 as stated: in every satisfying assignment, at every block the
\* handover flag (h[b] of the CP model, p[t] of the MIP model) is 1 exactly
\* when the summed usage of the shifts that start at the block is at least
\* 1, and is 0 at a block where no shift starts.
C10_HandoverFlag ==
    pc = "solved" =>
        IF backend = "cp"
        THEN \E ck \in {TaskCoversKeys} :
                \A b \in Blocks :
                    \A v \in BlockValuesCP(ck, usage, task_start, b) :
                        /\ v.h = 1 <=> starts_at(usage, b) >= 1
                        /\ b \notin DOMAIN shift_start_blocks => v.h = 0
        ELSE \E M \in {Big_M}, F \in {ChosenCandidates(task_start)} :
                \A t \in T :
                    \A p \in ProvideValuesMIP(candidate_blocks, M, usage, F, t) :
                        /\ p = 1 <=> r(usage, t) >= 1
                        /\ StartList(t - 1) = << >> => p = 0

\* C10 as the models have it: h[b] of the CP model is 1 exactly when the
\* summed usage of the shifts that start at b is at least 1, and is 0 where
\* no shift starts; p[t] of the MIP model is 1 whenever r[t] >= 1, and
\* nothing forces it to 0 when r[t] = 0.
C10_HandoverFlagOneSidedMIP ==
    pc = "solved" =>
        IF backend = "cp"
        THEN \E ck \in {TaskCoversKeys} :
                \A b \in Blocks :
                    \A v \in BlockValuesCP(ck, usage, task_start, b) :
                        /\ v.h = 1 <=> starts_at(usage, b) >= 1
                        /\ b \notin DOMAIN shift_start_blocks => v.h = 0
        ELSE \E M \in {Big_M}, F \in {ChosenCandidates(task_start)} :
                \A t \in T :
                    r(usage, t) >= 1 =>
                        \A p \in ProvideValuesMIP(candidate_blocks, M,
                                                   usage, F, t) : p = 1

\* a solution of the MIP with assignees starting at some block, and a block
\* where nobody starts whose p[t] can be 1
C10_Witness ==
    /\ SolvedMIP
    /\ \E t \in T : r(usage, t) >= 1
    /\ \E t \in T :
          /\ r(usage, t) = 0
          /\ 1 \in ProvideValuesMIP(candidate_blocks, Big_M, usage,
                                     ChosenCandidates(task_start), t)

----------------------------------------------------------------------------
(* solve() record by record: the backend is entered, invokes the callback  *)
(* for solutions it finds, and returns; the rest of solve() then reads the *)
(* values and the callback's list.                                         *)

MaxRecords == 2
MaxElapsed == 1

\* the other variables than pc and solutions
restVars ==
    <<coverVars, inputVars, valVars, preVars, modelVars, status, usage, task_start,
      total_cost_scaled, shifts_solution_df, tasks_solution_df, result>>

\* IntermediateSolutionCallback(start_time) is constructed and
\* solver.SolveWithSolutionCallback(self.model, callback) is entered
SolveWithSolutionCallback ==
    /\ pc = "built"
    /\ backend = "cp"
    /\ pc' = "optimizing"
    /\ solutions' = << >>
    /\ UNCHANGED restVars

\* SolutionCallback() is constructed and self.model.optimize(callback) is
\* entered
optimize ==
    /\ pc = "built"
    /\ backend = "gurobi"
    /\ pc' = "optimizing"
    /\ solutions' = << >>
    /\ UNCHANGED restVars

\* time.time() - start_time and RUNTIME never run backwards
Elapsed ==
    (IF solutions = << >> THEN 0 ELSE solutions[Len(solutions)][2])
        .. MaxElapsed

\* the record appended last
LastRecord == solutions[Len(solutions)]

\* a callback that also leaves a mark on the solver's state
OnSolutionCallback_Marking ==
    /\ pc = "optimizing"
    /\ backend = "cp"
    /\ Len(solutions) < MaxRecords
    /\ \E a \in feasible, elapsed \in Elapsed :
          /\ solutions = << >>
          /\ solutions' = Append(solutions, <<ObjectiveValue(a[1]), elapsed>>)
    /\ status' = "FEASIBLE"
    /\ UNCHANGED <<pc, coverVars, inputVars, valVars, preVars, modelVars, usage,
                   task_start, total_cost_scaled, shifts_solution_df,
                   tasks_solution_df, result>>

\* IntermediateSolutionCallback.OnSolutionCallback: CP-SAT hands a solution
\* to the callback when it is better than the best one found so far, one
\* call at a time
OnSolutionCallback ==
    /\ pc = "optimizing"
    /\ backend = "cp"
    /\ Len(solutions) < MaxRecords
    /\ \E a \in feasible, elapsed \in Elapsed :
          LET current_objective == ObjectiveValue(a[1])
          IN  /\ solutions # << >> =>
                    /\ FloatLE(current_objective, LastRecord[1])
                    /\ current_objective # LastRecord[1]
              /\ solutions' = Append(solutions, <<current_objective, elapsed>>)
    /\ UNCHANGED <<pc, restVars>>

\* SolutionCallback.__call__ with where = MIPSOL: Gurobi invokes it for
\* each new feasible solution its threads find, before the solution is
\* compared with the incumbent
SolutionCallback ==
    /\ pc = "optimizing"
    /\ backend = "gurobi"
    /\ Len(solutions) < MaxRecords
    /\ \E a \in feasible, elapsed \in Elapsed :
          \E best_objective \in ObjVal(a[1]) :
             solutions' = Append(solutions, <<best_objective, elapsed>>)
    /\ UNCHANGED <<pc, restVars>>

\* the objective values of the records that no record undercuts
BestRecorded ==
    {solutions[k][1] : k \in {c \in 1 .. Len(solutions) :
        \A d \in 1 .. Len(solutions) :
            FloatLE(solutions[c][1], solutions[d][1])}}

\* OptimalNurseSchedulerCP.solve() once SolveWithSolutionCallback is back:
\* the solver holds the solution of the last record
ReturnCP ==
    /\ pc = "optimizing"
    /\ backend = "cp"
    /\ \/ /\ solutions # << >>
          /\ \E a \in feasible :
                /\ ObjectiveValue(a[1]) = LastRecord[1]
                /\ IF Cost(a[1]) = MinCost(feasible)
                   THEN ReadSolution("OPTIMAL", a, solutions)
                   ELSE ReadSolution("FEASIBLE", a, solutions)
       \/ feasible = {} /\ NoSolution("INFEASIBLE", solutions)
       \/ solutions = << >> /\ NoSolution("UNKNOWN", solutions)
    /\ UNCHANGED <<coverVars, inputVars, valVars, preVars, modelVars>>

\* GurobiNurseSolver.solve() once optimize is back: the model holds the
\* best of the solutions recorded
ReturnMIP ==
    /\ pc = "optimizing"
    /\ backend = "gurobi"
    /\ \/ /\ solutions # << >>
          /\ \E a \in feasible, v \in BestRecorded :
                /\ v \in ObjVal(a[1])
                /\ IF Cost(a[1]) = MinCost(feasible)
                   THEN ReadSolutionMIP("OPTIMAL", a, v, solutions)
                   ELSE ReadSolutionMIP("TIME_LIMIT", a, v, solutions)
       \/ solutions = << >> /\ RaiseNoIncumbent(solutions)
       \/ feasible = {} /\ NoSolutionMIP("INFEASIBLE", solutions)
    /\ UNCHANGED <<coverVars, inputVars, valVars, preVars, modelVars>>

\* the twins of E6 with room for several solutions of different cost
Callback_shifts ==
    <<TwinShift("A", 1, 1000), TwinShift("B", 1, 1500), Ward_shifts[2]>>

InitCallbacks ==
    /\ pc = "start"
    /\ cover_array = ZeroCover /\ cover_before = ZeroCover
    /\ start_min = 0 /\ end_min = 0 /\ calls = 0
    /\ shifts_df = Callback_shifts
    /\ tasks_df \in E6_tasks
    /\ min_nurses_anytime \in 0 .. 1
    /\ shift_info = << >> /\ shift_start_blocks = EmptyDict
    /\ tasks_info = << >> /\ task_map = << >>
    /\ backend \in {"cp", "gurobi"}
    /\ adjusted_ranges = << >> /\ candidate_blocks = << >>
    /\ feasible = {} /\ status = "none" /\ usage = << >> /\ task_start = << >>
    /\ total_cost_scaled = 0
    /\ shifts_solution_df = << >> /\ tasks_solution_df = << >>
    /\ solutions = << >> /\ result = << >>
    /\ shifts_coverage = ZeroCover /\ tasks_coverage = ZeroCover
    /\ all_valid = "none"

NextCallbacks ==
    \/ ProcessData \/ BuildCP \/ BuildMIP
    \/ SolveWithSolutionCallback \/ OnSolutionCallback \/ ReturnCP
    \/ optimize \/ SolutionCallback \/ ReturnMIP

CallbackSpec == InitCallbacks /\ [][NextCallbacks]_vars

----------------------------------------------------------------------------
(* The end-to-end scenarios                                                *)

InScenario(sh, ta) == shifts_df = sh /\ tasks_df = ta

\* the model has been built from the preprocessor output
Built == pc \in {"built", "solved", "no_solution"}

\* C11: in scenario E1 (one shift D on Monday 08:00-16:00 with its break at
\* 12:00 for 30 minutes, cap 5, weight 1.00; one Monday task with window
\* 09:00-11:00, 60 minutes, 2 workers; floor 0) the built model is feasible,
\* and its optimal solution has U[D] = 3 and the task start in its window.
C11_E1Expected ==
    (InScenario(E1_shifts, E1_tasks) /\ backend = "cp" /\ Built) =>
        /\ feasible # {}
        /\ status = "OPTIMAL" =>
              /\ usage[1] = 3
              /\ task_in_window(tasks_solution_df)

\* C11, as the code has it: in scenario E1 the built model has no satisfying
\* assignment, and solve() never returns tables.
C11_E1Infeasible ==
    (InScenario(E1_shifts, E1_tasks) /\ backend = "cp" /\ Built) =>
        /\ feasible = {}
        /\ pc # "solved"

C11_Witness ==
    /\ InScenario(E1_shifts, E1_tasks)
    /\ backend = "cp"
    /\ pc = "no_solution"
    /\ status = "INFEASIBLE"

\* C12: in scenario E2 (one shift N from Monday 23:00 to Tuesday 07:00, no
\* break, cap 2, weight 1.50; one Tuesday task with window 01:00-02:00, 30
\* minutes, 1 worker) the built model is feasible with U[N] = 2.
C12_E2Expected ==
    (InScenario(E2_shifts, E2_tasks) /\ backend = "cp" /\ Built) =>
        \E a \in feasible : a[1][1] = 2

\* C12, as the code has it: in scenario E2 the built model has no satisfying
\* assignment, whatever U[N] is, and solve() never returns tables.
C12_E2Infeasible ==
    (InScenario(E2_shifts, E2_tasks) /\ backend = "cp" /\ Built) =>
        /\ feasible = {}
        /\ pc # "solved"

\* the shift was compiled across midnight before the model was found empty
C12_Witness ==
    /\ InScenario(E2_shifts, E2_tasks)
    /\ backend = "cp"
    /\ pc = "no_solution"
    /\ status = "INFEASIBLE"
    /\ shift_info[1].coverage[minute_to_block(1440 + 60)] = 1
    /\ tasks_info[1].earliest_block = minute_to_block(1440 + 60)

\* the instances of the Sunday task of E3
LateTasks == {i \in 1 .. Len(tasks_info) : tasks_info[i].task_name = "late"}

\* Monday 00:15 counted from the Monday before: block 673
MondayQuarterPast == N_BLOCKS + minute_to_block(15)

\* C13: for the Sunday task of E3 (window 22:00-02:00, 30 minutes) the start
\* variable's domain contains Monday 00:15 as block 673, the occupancy
\* indicators are keyed at blocks 1 and 2 and are 1 exactly there for that
\* start, and a solution with that start is emitted with solution_start
\* 00:15; the MIP model's candidate with that start covers blocks 1 and 2
\* and is emitted the same way.
C13_SundayWrap ==
    (InScenario(Ward_shifts, E3_tasks) /\ Built) =>
        \A i \in LateTasks :
            /\ backend = "cp" =>
                  /\ adjusted_ranges[i] = <<664, 680>>
                  /\ MondayQuarterPast \in StartDomain(i)
                  /\ {1, 2} \subseteq CoverKeys(i)
                  /\ \A b \in CoverKeys(i) :
                        CoversValues(i, MondayQuarterPast, b) =
                            IF b \in {1, 2} THEN {1} ELSE {0}
            /\ backend = "gurobi" =>
                  /\ Len(candidate_blocks[i]) = 17
                  /\ candidate_blocks[i][MondayQuarterPast - 664 + 1] = <<1, 2>>
            /\ (pc = "solved" /\ task_start[i] = MondayQuarterPast) =>
                  tasks_solution_df[i].solution_start = <<0, 15>>

C13_Witness ==
    /\ InScenario(Ward_shifts, E3_tasks)
    /\ backend = "cp"
    /\ pc = "solved"
    /\ \E i \in LateTasks : task_start[i] = MondayQuarterPast

C13_WitnessMIP ==
    /\ InScenario(Ward_shifts, E3_tasks)
    /\ backend = "gurobi"
    /\ pc = "solved"
    /\ \E i \in LateTasks : task_start[i] = MondayQuarterPast

----------------------------------------------------------------------------
(* Capacity                                                                *)

\* the summed caps of the templates that cover block b
CapSum(b) ==
    SeqSum([s \in 1 .. Len(shift_info) |->
               IF shift_info[s].coverage[b] > 0
               THEN shift_info[s].max_nurses ELSE 0])

\* the workers that tasks need at block b wherever they start in their
\* windows
ForcedDemand(b) ==
    SeqSum([i \in 1 .. Len(tasks_info) |->
               IF \A st \in StartDomain(i) :
                     \E k \in 0 .. (tasks_info[i].duration_blocks - 1) :
                        (st + k) % N_BLOCKS = b
               THEN tasks_info[i].required_nurses ELSE 0])

CapacityShort == \E b \in Blocks : CapSum(b) < ForcedDemand(b)

\* C14: when the summed caps of the templates covering some block are below
\* the demand at that block, building the model fails and the backend's
\* solve is never called: the pipeline gets no further than the
\* preprocessor output.
C14_CapacityPreCheck ==
    (backend = "cp" /\ pc # "start" /\ CapacityShort) =>
        pc \notin {"built", "solved", "no_solution"}

----------------------------------------------------------------------------
(* Twin templates                                                          *)

\* the blocks at which template s (1-based) starts
StartBlocksOf(s) ==
    {b \in DOMAIN shift_start_blocks :
        \E k \in 1 .. Len(shift_start_blocks[b]) :
            shift_start_blocks[b][k] = s - 1}

\* templates s and t have the same coverage bitmap, start blocks and cap
Twins(s, t) ==
    /\ s # t
    /\ shift_info[s].coverage = shift_info[t].coverage
    /\ StartBlocksOf(s) = StartBlocksOf(t)
    /\ shift_info[s].max_nurses = shift_info[t].max_nurses

C15_WitnessCheaperOnly ==
    /\ pc = "solved" /\ status = "OPTIMAL"
    /\ \E s, t \in 1 .. Len(shift_info) :
          /\ Twins(s, t)
          /\ shift_info[s].weight_scaled < shift_info[t].weight_scaled
          /\ usage[t] = 0
          /\ usage[s] > 0

----------------------------------------------------------------------------
(* Validator: the coverage arrays computed from the emitted tables         *)

\* Validator.time_length
time_length(length) == length \div 15

\* Validator.to_quarter_of_day
to_quarter_of_day(time_str) == time_str[1] * 4 + time_str[2] \div 15

\* the end day taken to be the start day whatever the two times
get_end_day_SameDay(start_time, end_time, start_day_index) == start_day_index

\* Validator.get_end_day
get_end_day(start_time, end_time, start_day_index) ==
    IF to_quarter_of_day(end_time) < to_quarter_of_day(start_time)
    THEN (start_day_index + 1) % 7
    ELSE start_day_index

\* Validator.get_shift_index
get_shift_index(start_time, end_time, start_day_index, start_time_break, break_duration) ==
    LET start_quarter == to_quarter_of_day(start_time)
        end_quarter == to_quarter_of_day(end_time)
        end_day_index == get_end_day(start_time, end_time, start_day_index)
        start_index == (start_day_index * 96 + start_quarter + 1) % 672
        end_index == (end_day_index * 96 + end_quarter + 1) % 672
        start_break_quarter == to_quarter_of_day(start_time_break)
        start_break_day_index ==
            get_end_day(start_time, start_time_break, start_day_index)
        start_break_index ==
            (start_break_day_index * 96 + start_break_quarter) % 672
        end_break_index ==
            (start_break_index + time_length(break_duration) + 1) % 672
    IN  <<start_index, end_index, start_break_index, end_break_index>>

\* what arr[lo:hi] += 1, arr[lo:] += 1 and arr[:hi] += 1 add at index b
Slice(b, lo, hi) == IF lo <= b /\ b < hi THEN 1 ELSE 0
SliceFrom(b, lo) == IF lo <= b THEN 1 ELSE 0
SliceTo(b, hi) == IF b < hi THEN 1 ELSE 0

\* the body of shift_coverage's loops for one shift on one day: how many
\* times usage is added at index b
ShiftDayCoverage(shift, day_index, b) ==
    LET ix == get_shift_index(shift.start, shift.end, day_index, shift.brk,
                              shift.break_duration)
        start_index == ix[1]
        end_index == ix[2]
        start_break_index == ix[3]
        end_break_index == ix[4]
    IN  IF shift.break_duration # 0
        THEN IF start_index < end_index
             THEN IF start_break_index < end_break_index
                  THEN Slice(b, start_index, start_break_index)
                       + Slice(b, end_break_index, end_index)
                  ELSE Slice(b, start_index, start_break_index)
                       + SliceFrom(b, end_break_index)
                       + SliceTo(b, end_index)
             ELSE IF start_break_index < end_break_index
                  THEN IF start_break_index > start_index
                       THEN Slice(b, start_index, start_break_index)
                            + SliceFrom(b, end_break_index)
                            + SliceTo(b, end_index)
                       ELSE SliceFrom(b, start_index)
                            + SliceTo(b, start_break_index)
                            + Slice(b, end_break_index, end_index)
                  ELSE SliceFrom(b, start_index) + SliceTo(b, end_index)
        ELSE IF start_index < end_index
             THEN Slice(b, start_index, end_index)
             ELSE SliceFrom(b, start_index) + SliceTo(b, end_index)

\* Validator.shift_coverage: self.shifts_coverage[b], shifts being
\* self.shifts
shift_coverage(shifts, b) ==
    SeqSum([j \in 1 .. Len(shifts) |->
               shifts[j].usage
               * SeqSum([d \in 1 .. 7 |->
                            IF shifts[j].days[d] = 1
                            THEN ShiftDayCoverage(shifts[j], d - 1, b)
                            ELSE 0])])

\* Validator.get_unique_start_times
get_unique_start_times(df) ==
    UNION {{<<d - 1, df[j].start>> : d \in {c \in 1 .. 7 : df[j].days[c] = 1}} :
              j \in 1 .. Len(df)}

\* Validator.get_task_index
get_task_index(start_window, solution_start, start_day_index, duration) ==
    LET solution_start_quarter == to_quarter_of_day(solution_start)
        solution_start_day_index ==
            get_end_day(start_window, solution_start, start_day_index)
        start_index == solution_start_day_index * 96 + solution_start_quarter
        end_index == (start_index + time_length(duration)) % 672
    IN  <<start_index, end_index>>

\* Validator.task_coverage: self.tasks_coverage[b] after one call
task_coverage(tasks, shifts, b) ==
    SeqSum([i \in 1 .. Len(tasks) |->
               LET ix == get_task_index(tasks[i].start_window,
                                        tasks[i].solution_start,
                                        tasks[i].day_index, tasks[i].duration)
               IN  tasks[i].required_nurses
                   * (IF ix[1] < ix[2]
                      THEN Slice(b, ix[1], ix[2])
                      ELSE SliceFrom(b, ix[1]) + SliceTo(b, ix[2]))])
    + Cardinality({row \in get_unique_start_times(shifts) :
                      get_task_index(row[2], row[2], row[1], 0)[1] = b})

\* Validator.check_coverage after shift_coverage and task_coverage
check_coverage(shifts, tasks) ==
    \A i \in Blocks :
        ~(shift_coverage(shifts, i) - task_coverage(tasks, shifts, i) < 0)

\* the model's slack at block b for usage U and starts S, H[b] being 1
\* exactly when somebody starts at b
Slack(U, S, b) ==
    CoverageSum(U, b) - starts_at(U, b)
    - (IF starts_at(U, b) >= 1 THEN 1 ELSE 0) - TaskDemand(S, b)

\* the tables solve() emits for usage U and starts S
EmittedShifts(U) == UsedShifts(WithUsage(shifts_df, U))

\* C16: for every usage vector and every choice of task starts in their
\* windows, at every block the validator's supply less its demand,
\* computed from the emitted tables, equals the model's slack, so that
\* check_coverage is true exactly when the slack is nowhere negative.
C16_ValidatorAgrees ==
    pc = "preprocessed" =>
        \A U \in UsageVectors, S \in StartVectors :
            /\ \A b \in Blocks :
                  shift_coverage(EmittedShifts(U), b)
                  - task_coverage(TaskRecords(S), EmittedShifts(U), b)
                  = Slack(U, S, b)
            /\ check_coverage(EmittedShifts(U), TaskRecords(S))
                  <=> \A b \in Blocks : Slack(U, S, b) >= 0

----------------------------------------------------------------------------
(* What solve() hands back                                                 *)

\* the backend came back because the time limit was reached: CP-SAT reports
\* FEASIBLE with an incumbent and UNKNOWN without, Gurobi TIME_LIMIT
Deadline == status \in {"FEASIBLE", "UNKNOWN", "TIME_LIMIT"}

\* the assignment solve() read is one of the built model
ReadIncumbent ==
    \E a \in feasible :
        /\ usage = a[1]
        /\ task_start = IF backend = "cp" THEN a[2] ELSE ChosenStarts(a[2])

\* C17: when the backend returns at the deadline, solve() either read the
\* values of an incumbent and returned tables, or read nothing and reported
\* no solution; either way the caller gets a tuple of four.
C17_DeadlineOutcome ==
    Deadline =>
        /\ \/ pc = "solved" /\ ReadIncumbent
           \/ pc = "no_solution" /\ usage = << >> /\ task_start = << >>
        /\ Len(result) = 4

----------------------------------------------------------------------------
(* The improvement records                                                 *)

\* C18: the records the callback collected during one solve are
\* non-increasing in objective, whichever solutions the backend hands to
\* the callback and in whichever order.
C18_StreamOrder ==
    \A k \in 1 .. (Len(solutions) - 1) :
        FloatLE(solutions[k + 1][1], solutions[k][1])

----------------------------------------------------------------------------
(* The reported cost                                                       *)

\* the float total_cost, times 100, is the whole number scaled
TimesHundredIs(cost, scaled) ==
    /\ cost.num * 100 = scaled * cost.den
    /\ cost.ulps = 0

\* C20: for every solution returned, total_cost * 100 is the integer sum
\* over the templates of usage * length_blocks * weight_scaled, with
\* length_blocks the number of set bits of the coverage and weight_scaled
\* round(weight * 100); so both backends report the same cost for the same
\* usage vector.
C20_ReportedCost ==
    pc = "solved" =>
        /\ \A s \in 1 .. Len(shift_info) :
              /\ shift_info[s].length_blocks = SumArray(shift_info[s].coverage)
              /\ shift_info[s].weight_scaled
                    = PyRound(shifts_df[s].weight * 100, 1000)
        /\ TimesHundredIs(result[1], Cost(usage))

----------------------------------------------------------------------------
(* Breaks and midnight in the coverage compiler                            *)

\* the day loop of _process_shifts with the remove_coverage_blocks call
\* left out
RECURSIVE CompileDaysNoBreak(_, _, _)
CompileDaysNoBreak(coverage_arr, row, day_index) ==
    IF day_index > 6 THEN coverage_arr
    ELSE IF row.days[day_index + 1] = 0
         THEN CompileDaysNoBreak(coverage_arr, row, day_index + 1)
         ELSE LET se == _compute_start_end_minutes(day_index, row.start, row.end)
              IN  CompileDaysNoBreak(
                      add_coverage_blocks(coverage_arr, se[1], se[2]),
                      row, day_index + 1)

\* C21: a template whose break_duration is 0 compiles to the coverage it
\* has with no break removal at all: remove_coverage_blocks(cover, m, m)
\* clears no block.
C21_ZeroLengthBreak ==
    Compiled =>
        \A t \in 1 .. Len(shifts_df) :
            shifts_df[t].break_duration = 0 =>
                shift_info[t].coverage
                    = CompileDaysNoBreak(ZeroCover, shifts_df[t], 0)

\* C22: a template whose end time of day is at or before its start time of
\* day ends on the following day: end_min = day offset + end + 1440 on every
\* active day, so a template with end = start covers 96 blocks per active
\* day.
C22_MidnightIncludingEqual ==
    Compiled =>
        \A t \in 1 .. Len(shifts_df) :
            LET row == shifts_df[t]
            IN  MinuteOfDay(row.end) <= MinuteOfDay(row.start) =>
                    /\ \A d \in ActiveDays(row) :
                          _compute_start_end_minutes(d, row.start, row.end)[2]
                              = d * 1440 + MinuteOfDay(row.end) + 1440
                    /\ row.end = row.start =>
                          SumArray(CompileDaysNoBreak(ZeroCover, row, 0))
                              >= 96 * Cardinality(ActiveDays(row))

\* C23: on every active day the break interval handed to
\* remove_coverage_blocks lies within that day's [start_min, end_min], so
\* the removal clears no block outside that day's shift interval, even when
\* the nominal break starts before the shift or runs past its end.
C23_BreakClamping ==
    Compiled =>
        \A t \in 1 .. Len(shifts_df) :
            \A d \in ActiveDays(shifts_df[t]) :
                LET row == shifts_df[t]
                    se == _compute_start_end_minutes(d, row.start, row.end)
                    break_start == BreakStartMin(row, d)
                    break_end == break_start + row.break_duration
                IN  /\ se[1] <= break_start
                    /\ break_end <= se[2]
                    /\ CoverageRange(break_start, break_end)
                          \subseteq CoverageRange(se[1], se[2])

----------------------------------------------------------------------------
(* The occupancy booleans of the CP model                                  *)

\* C24: in every satisfying assignment of the CP model, for every task
\* instance and every unreduced block ext_b of range(e_b, l_b + d_b), the
\* boolean stored under ext_b mod 672 is 1 exactly when the task started at
\* S occupies ext_b; so exactly duration_blocks booleans of the instance are
\* 1 and the demand at a block is the sum of required_nurses over the
\* instances that occupy a block congruent to it.
C24_OccupancyReification ==
    SolvedCP =>
        \E ck \in {TaskCoversKeys} :
            /\ \A i \in 1 .. Len(tasks_info) :
                  LET d_b == tasks_info[i].duration_blocks
                      S == task_start[i]
                  IN  /\ \A ext_b \in ExtRange(i) :
                            CoversValues(i, S, ext_b % N_BLOCKS)
                                = {IF S <= ext_b /\ ext_b < S + d_b
                                   THEN 1 ELSE 0}
                      /\ Cardinality({k \in ck[i] :
                                         CoversValues(i, S, k) = {1}}) = d_b
            /\ \A c \in Blocks :
                  \A v \in BlockValuesCP(ck, usage, task_start, c) :
                      DemandExpr(c, v.covers) = TaskDemand(task_start, c)

\* a solution in which the Sunday task starts after midnight, at an
\* unreduced block past the week's end
C24_Witness ==
    /\ SolvedCP
    /\ \E i \in 1 .. Len(tasks_info) :
          /\ task_start[i] >= N_BLOCKS
          /\ tasks_info[i].duration_blocks >= 2
          /\ tasks_info[i].required_nurses >= 1

----------------------------------------------------------------------------
(* Task expansion                                                          *)

\* the (row label, day index) pairs of the active days of the task table
ActivePairs ==
    {q \in (0 .. (Len(tasks_df) - 1)) \X (0 .. 6) :
        tasks_df[q[1] + 1].days[q[2] + 1] = 1}

\* table order, and Monday to Sunday within a row
PairBefore(q1, q2) == q1[1] < q2[1] \/ (q1[1] = q2[1] /\ q1[2] < q2[2])

\* C25: _process_tasks emits exactly one instance for every (task row,
\* active weekday) pair and none for an inactive day, rows in table order
\* and days Monday to Sunday within a row; task_map is as long as tasks_info
\* and its i-th entry is the (row, day) the i-th instance was built from,
\* whose earliest block lies on that day.
C25_TaskExpansion ==
    pc # "start" =>
        /\ Len(task_map) = Len(tasks_info)
        /\ Len(tasks_info) = Cardinality(ActivePairs)
        /\ \A i \in 1 .. Len(task_map) :
              /\ <<task_map[i][1], task_map[i][2]>> \in ActivePairs
              /\ tasks_info[i] = TaskInfoOf(tasks_df[task_map[i][1] + 1], task_map[i][2])
              /\ tasks_info[i].earliest_block \div 96 = task_map[i][2]
              /\ \A j \in (i + 1) .. Len(task_map) :
                    PairBefore(task_map[i], task_map[j])

\* a table of two rows, the first active on several days, has been expanded
C25_Witness ==
    /\ pc = "preprocessed"
    /\ Len(tasks_df) = 2
    /\ Len(tasks_info) > 2
    /\ task_map[1] = <<0, 0>>
    /\ task_map[Len(task_map)] = <<1, 6>>

----------------------------------------------------------------------------
(* The Validator and the preprocessor as objects whose methods are called  *)
(* again: ValidatorSpec builds a Validator on a pair of output tables and  *)
(* a NurseSchedulingPreprocessor on the input tables they belong to, and   *)
(* calls shift_coverage(), task_coverage() and process_data() up to        *)
(* MaxRecompute times; validate_schedule builds its own Validator.         *)

MaxRecompute == 2

\* Validator.always_nurses_available after shift_coverage
always_nurses_available(shifts) ==
    \A i \in Blocks : ~(shift_coverage(shifts, i) = 0)

\* check_max_nurses prints shift['original_shift_idx'] of a shift whose
\* usage exceeds max_nurses: a row without that column raises KeyError
check_max_nurses_raises(shifts) ==
    \E j \in 1 .. Len(shifts) :
        /\ shifts[j].usage > shifts[j].max_nurses
        /\ "original_shift_idx" \notin DOMAIN shifts[j]

\* Validator.validate_schedule: a new Validator, both vectors computed, the
\* four checks evaluated one after the other and their conjunction returned
validate_schedule(shifts, tasks) ==
    LET validator_shifts == UsedShifts(shifts)
        coverage_valid == check_coverage(validator_shifts, tasks)
        window_valid == task_in_window(tasks)
        max_nurses_valid == check_max_nurses(validator_shifts)
        always_nurses_valid == always_nurses_available(validator_shifts)
    IN  coverage_valid /\ window_valid /\ max_nurses_valid
        /\ always_nurses_valid

\* the ward's two shifts with breaks of dur minutes
Val_shifts(dur) ==
    <<ShiftRow("D", <<8, 0>>, <<20, 0>>, <<12, 0>>, dur, 2, 1000, 0 .. 6),
      ShiftRow("N", <<19, 0>>, <<9, 0>>, <<19, 30>>, dur, 2, 1500, 0 .. 6)>>

\* a Monday round with the window 10:00-11:00 and a Sunday check whose
\* window 23:30-00:30 runs into Monday
Val_tasks ==
    {<<TaskRow("round", <<10, 0>>, <<11, 0>>, 30, req, {0})>> :
        req \in 1 .. 2}
    \cup {<<TaskRow("check", <<23, 30>>, <<0, 30>>, 30, 1, {6})>>}

\* the start times tried for the task, inside and outside either window
Val_starts == {<<10, 0>>, <<11, 15>>, <<0, 15>>}

\* the usage columns tried: within the caps, D left out, D past its cap
Val_usages == {<<1, 1>>, <<0, 1>>, <<3, 1>>}

\* the record of the task table for the row's first active day, started at
\* start
Val_record(row, start) ==
    LET day_index == CHOOSE d \in 0 .. 6 : row.days[d + 1] = 1
    IN  [original_task_idx |-> 0,
         day_index |-> day_index,
         task_name |-> row.task,
         start_window |-> row.start,
         end_window |-> row.end,
         solution_start |-> start,
         duration |-> row.duration_min,
         required_nurses |-> row.nurses_required]

InitValidator ==
    /\ pc = "start"
    /\ cover_array = ZeroCover /\ cover_before = ZeroCover
    /\ start_min = 0 /\ end_min = 0 /\ calls = 0
    /\ \E dur \in {0, 30} : shifts_df = Val_shifts(dur)
    /\ tasks_df \in Val_tasks
    /\ min_nurses_anytime = 0
    /\ shift_info = << >> /\ shift_start_blocks = EmptyDict
    /\ tasks_info = << >> /\ task_map = << >>
    /\ backend = "none"
    /\ adjusted_ranges = << >> /\ candidate_blocks = << >>
    /\ feasible = {} /\ status = "none" /\ usage = << >> /\ task_start = << >>
    /\ total_cost_scaled = 0
    /\ \E U \in Val_usages : shifts_solution_df = WithUsage(shifts_df, U)
    /\ \E start \in Val_starts :
          tasks_solution_df = <<Val_record(tasks_df[1], start)>>
    /\ solutions = << >> /\ result = << >>
    /\ shifts_coverage = ZeroCover /\ tasks_coverage = ZeroCover
    /\ all_valid = "none"

\* process_data() called on a preprocessor that has been processed already
ProcessDataAgain ==
    /\ pc = "preprocessed"
    /\ calls < MaxRecompute
    /\ shift_start_blocks' = RecordStarts(EmptyDict, shifts_df, 1, 0)
    /\ shift_info' = shift_info \o
                        [j \in 1 .. Len(shifts_df) |-> ShiftInfoOf(shifts_df[j])]
    /\ LET new == ExpandTasks(tasks_df, 1, 0)
       IN  /\ tasks_info' = tasks_info \o [j \in 1 .. Len(new) |-> new[j][1]]
           /\ task_map' = task_map \o [j \in 1 .. Len(new) |-> new[j][2]]
    /\ calls' = calls + 1
    /\ UNCHANGED <<pc, cover_array, cover_before, start_min, end_min,
                   inputVars, valVars, modelVars, solVars>>

\* validator.shift_coverage(): the vector is zeroed and filled
ShiftCoverage ==
    /\ pc \in {"start", "preprocessed"}
    /\ calls < MaxRecompute
    /\ shifts_coverage' =
          [b \in Blocks |-> shift_coverage(UsedShifts(shifts_solution_df), b)]
    /\ calls' = calls + 1
    /\ UNCHANGED <<pc, cover_array, cover_before, start_min, end_min,
                   inputVars, tasks_coverage, all_valid, preVars, modelVars,
                   solVars>>

\* validator.task_coverage(): the demand is added to the vector as it is
TaskCoverage ==
    /\ pc \in {"start", "preprocessed"}
    /\ calls < MaxRecompute
    /\ tasks_coverage' =
          [b \in Blocks |->
              tasks_coverage[b]
              + task_coverage(tasks_solution_df,
                              UsedShifts(shifts_solution_df), b)]
    /\ calls' = calls + 1
    /\ UNCHANGED <<pc, cover_array, cover_before, start_min, end_min,
                   inputVars, shifts_coverage, all_valid, preVars, modelVars,
                   solVars>>

\* Validator.validate_schedule(shifts, tasks) on the two tables.  It is
\* static and reads its arguments only, so it is applied to the tables
\* before any method of the objects has been called again, and ends the
\* run, with the verdict or with the KeyError of check_max_nurses.
ValidateSchedule ==
    /\ pc \in {"start", "preprocessed"}
    /\ calls = 0
    /\ IF check_max_nurses_raises(UsedShifts(shifts_solution_df))
       THEN pc' = "error" /\ UNCHANGED all_valid
       ELSE /\ all_valid' =
                  IF validate_schedule(shifts_solution_df, tasks_solution_df)
                  THEN "True" ELSE "False"
            /\ pc' = "validated"
    /\ UNCHANGED <<coverVars, inputVars, shifts_coverage, tasks_coverage,
                   preVars, modelVars, solVars>>

NextValidator ==
    \/ ProcessData
    \/ ProcessDataAgain
    \/ ShiftCoverage
    \/ TaskCoverage
    \/ ValidateSchedule

ValidatorSpec == InitValidator /\ [][NextValidator]_vars

\* the validator's two vectors for the tables
Supply == [b \in Blocks |-> shift_coverage(UsedShifts(shifts_solution_df), b)]
Demand ==
    [b \in Blocks |->
        task_coverage(tasks_solution_df, UsedShifts(shifts_solution_df), b)]

\* the start of the record is inside its window, which wraps past midnight
\* when it ends before it begins
StartInWindow(rec) ==
    LET sw == to_quarter_of_day(rec.start_window)
        ew == to_quarter_of_day(rec.end_window)
        ss == to_quarter_of_day(rec.solution_start)
    IN  IF sw <= ew THEN sw <= ss /\ ss <= ew ELSE ss >= sw \/ ss <= ew

CoverageHolds(sup, dem) == \A b \in Blocks : sup[b] >= dem[b]
WindowHolds ==
    \A i \in 1 .. Len(tasks_solution_df) :
        StartInWindow(tasks_solution_df[i])
CapHolds ==
    \A j \in 1 .. Len(shifts_solution_df) :
        shifts_solution_df[j].usage # 0 =>
            shifts_solution_df[j].usage <= shifts_solution_df[j].max_nurses
PresenceHolds(sup) == \A b \in Blocks : sup[b] >= 1

\* C26: validate_schedule returns a boolean on every pair of tables, and it
\* is true exactly when supply covers demand at every block, every task
\* starts inside its window, no used shift exceeds max_nurses and supply is
\* at least 1 at every block; a single failing check makes it false.
C26_ValidatorVerdict ==
    (pc \in {"validated", "error"}) =>
        \E sup \in {Supply}, dem \in {Demand} :
            /\ all_valid \in {"True", "False"}
            /\ all_valid = "True" <=>
                  /\ CoverageHolds(sup, dem)
                  /\ WindowHolds
                  /\ CapHolds
                  /\ PresenceHolds(sup)

\* what one process_data() on a new preprocessor leaves in its fields
FreshShiftInfo == [j \in 1 .. Len(shifts_df) |-> ShiftInfoOf(shifts_df[j])]
FreshTasks == ExpandTasks(tasks_df, 1, 0)

\* C30: after any sequence of calls of shift_coverage(), task_coverage() and
\* process_data() on the same objects, the supply vector, the demand vector,
\* shift_info, tasks_info and shift_start_blocks are what a single
\* call on a new object produces: nothing accumulates and nothing is
\* appended twice.
C30_RecomputeIdempotent ==
    /\ \E sup \in {Supply} : shifts_coverage \in {ZeroCover, sup}
    /\ \E dem \in {Demand} : tasks_coverage \in {ZeroCover, dem}
    /\ pc = "preprocessed" =>
          \E new \in {FreshTasks} :
              /\ shift_info = FreshShiftInfo
              /\ tasks_info = [j \in 1 .. Len(new) |-> new[j][1]]
              /\ shift_start_blocks = RecordStarts(EmptyDict, shifts_df, 1, 0)


\* ---------------------------------------------------------------------
\* The handover and the assignees who stay
\* ---------------------------------------------------------------------

\* the used templates other than s whose coverage holds block b
OthersCovering(U, s, b) ==
    {o \in 1 .. Len(shift_info) :
        o # s /\ U[o] >= 1 /\ shift_info[o].coverage[b] > 0}

\* C27: in every assignment that satisfies the CP model, a block at which
\* assignees start has at least one assignee on duty who does not start
\* there, (sum_t coverage[t][b]*U[t]) - StartsAt[b] >= 1; so no satisfying
\* assignment uses a template one of whose start blocks no other used
\* template covers.
C27_HandoverNeedsContinuing ==
    (backend = "cp" /\ pc \in {"built", "solved"}) =>
        \A U \in {a[1] : a \in feasible} :
            /\ \A b \in DOMAIN shift_start_blocks :
                  starts_at(U, b) >= 1 =>
                      CoverageSum(U, b) - starts_at(U, b) >= 1
            /\ \A b \in DOMAIN shift_start_blocks :
                  \A k \in 1 .. Len(shift_start_blocks[b]) :
                      U[shift_start_blocks[b][k] + 1] >= 1 =>
                          OthersCovering(U, shift_start_blocks[b][k] + 1, b) # {}

\* a built CP model with a satisfying assignment in which assignees start
\* at a block while others stay
C27_Witness ==
    /\ backend = "cp" /\ pc = "built"
    /\ \E a \in feasible, b \in DOMAIN shift_start_blocks :
          /\ starts_at(a[1], b) >= 1
          /\ CoverageSum(a[1], b) - starts_at(a[1], b) >= 1


\* ---------------------------------------------------------------------
\* From a start block to the emitted time of day and back
\* ---------------------------------------------------------------------

\* the blocks block_to_timestr is applied to: two weeks of them
TimestrBlocks == 0 .. (2 * N_BLOCKS - 1)

\* what get_task_index returns for task i were its start variable S
EmittedIndex(i, S) ==
    get_task_index(block_to_timestr(tasks_info[i].earliest_block), block_to_timestr(S), task_map[i][2], block_to_minute(tasks_info[i].duration_blocks))

\* C28: for every task instance and every start block S of its model
\* domain, get_task_index on the emitted record (start_window, solution_start,
\* day_index, duration) returns S mod 672 and (S + durationBlocks) mod 672;
\* and to_quarter_of_day(block_to_timestr(b)) = b mod 96 for every block b.
C28_StartRoundTrip ==
    (pc \in {"preprocessed", "built", "solved"}) =>
        /\ \A i \in 1 .. Len(tasks_info) :
              \A S \in StartDomain(i) :
                  EmittedIndex(i, S) = <<S % N_BLOCKS, (S + tasks_info[i].duration_blocks) % N_BLOCKS>>
        /\ \A b \in TimestrBlocks :
              to_quarter_of_day(block_to_timestr(b)) = b % 96
        /\ pc = "solved" =>
              \A i \in 1 .. Len(tasks_solution_df) :
                  get_task_index(tasks_solution_df[i].start_window, tasks_solution_df[i].solution_start, tasks_solution_df[i].day_index, tasks_solution_df[i].duration)
                      = <<task_start[i] % N_BLOCKS, (task_start[i] + tasks_info[i].duration_blocks) % N_BLOCKS>>

\* a solution whose task starts after midnight on Monday in a window that
\* opened on Sunday, the emitted record read back to that block
C28_Witness ==
    /\ pc = "solved"
    /\ \E i \in 1 .. Len(tasks_solution_df) :
          /\ task_start[i] >= N_BLOCKS
          /\ tasks_solution_df[i].day_index = 6
          /\ get_task_index(tasks_solution_df[i].start_window, tasks_solution_df[i].solution_start, tasks_solution_df[i].day_index, tasks_solution_df[i].duration)[1]
                = task_start[i] - N_BLOCKS


\* ---------------------------------------------------------------------
\* The two backends on the same preprocessor output
\* ---------------------------------------------------------------------

\* the <<usage vector, task start blocks>> pairs of MIP assignments
StartPairsMIP(sols) == {<<a[1], ChosenStarts(a[2])>> : a \in sols}

\* GurobiNurseSolver's constructor gets through _build_model
BuildsMIP == Len(tasks_info) >= 5 /\ Big_M # 0

\* the pairs the other backend's model admits equal those of the built one
SamePairs ==
    IF backend = "cp"
    THEN \E cb \in {CandidateBlocks}, M \in {Big_M} :
            StartPairsMIP(SolutionsMIP(cb, M)) = feasible
    ELSE \E ck \in {TaskCoversKeys} :
            StartPairsMIP(feasible) = SolutionsCP(ck)

\* C29: for the same preprocessor output and the same floor, the model of
\* GurobiNurseSolver exists whenever the CP model does, and the <<usage
\* vector, task start blocks>> pairs that extend to a satisfying assignment
\* are the same for both, so both have the same optimal cost; task windows
\* that wrap from Sunday to Monday and tasks that run past block 671
\* included.
C29_BackendEquivalence ==
    pc = "built" => (BuildsMIP /\ SamePairs)

====
